---- MODULE Spec2Model ----
(***************************************************************************)
(* Azure DevOps work item automation: the DSL parser (DSLParser), the rule *)
(* engine (RuleEngine), the webhook handler (OnWorkItemUpdated) and the    *)
(* dispatch of update operations (performOperations, sendUpdateOperations).*)
(*                                                                         *)
(* Text is modelled as TLA+ strings, read character by character with Len  *)
(* and SubSeq. Positions are 1-based here and 0-based in the TypeScript.   *)
(* A JavaScript value that may be undefined is a record that lacks the     *)
(* field, or a tagged value [type |-> "undefined"].                        *)
(***************************************************************************)
EXTENDS Integers, Sequences, FiniteSets, TLC

VARIABLES
    pc,              \* position of the running operation
    dslText,         \* DSLParser.parse: the text handed to parse
    lines,           \* DSLParser.lines
    currentIndex,    \* DSLParser.currentIndex (0-based, as in the source)
    rules,           \* the Rule[] accumulated by parse
    env,             \* OnWorkItemUpdated: the request and what the collaborators answer
    ruleIndex,       \* OnWorkItemUpdated: position of the for-of loop over rules (0-based)
    evaluated,       \* log: indexes of the rules handed to evaluateRule, in call order
    executed,        \* log: indexes of the rules handed to executeRule, in call order
    updateOperations,\* the UpdateOperation[] returned by executeRule / given to performOperations
    sent,            \* log: one entry per call of sendUpdateOperations
    response,        \* the HTTP status returned by the handler (0: none yet)
    ctx,             \* RuleEngine: rule and item context of the call under test
    result           \* RuleEngine: what the call returned

vars == <<pc, dslText, lines, currentIndex, rules, env, ruleIndex, evaluated,
          executed, updateOperations, sent, response, ctx, result>>

-----------------------------------------------------------------------------
(* JavaScript string primitives *)

\* const name = value; then body(name): the value is computed once
Bind(value, body(_)) == CHOOSE out \in {body(name) : name \in {value}} : TRUE

Min(S) == CHOOSE x \in S : \A y \in S : x <= y

Max(S) == CHOOSE x \in S : \A y \in S : x >= y

charAt(s, i) == SubSeq(s, i, i)

\* the character of s at position i, "" outside s
peek(s, i) == IF 1 <= i /\ i <= Len(s) THEN charAt(s, i) ELSE ""

(* Characters and their code units. A JavaScript string is a sequence of    *)
(* UTF-16 code units. A TLA+ string literal can denote the characters with  *)
(* the code units 0 to 255 and, above, those whose low byte is 128 or more  *)
(* (surrogates excepted): these are the characters a string of the model is *)
(* made of. The tables list them in the order of their code units, but for  *)
(* the character with code unit 0, which is the one that is in no table.    *)

GraveAccent == SubSeq("`'", 1, 1)

\* the characters with the code units 1 to 255
Latin1 ==
    "\t\n\f\r !\"#$%&'()*+,-./0123456789:;<=>?@ABCDEFGHIJKLMNOPQRSTUVWXYZ[\\]^_"
    \o GraveAccent
    \o "abcdefghijklmnopqrstuvwxyz{|}~ ¡¢£¤¥¦§¨©ª«¬­®¯°±²³´µ¶·¸¹º»¼½¾¿ÀÁÂÃÄÅÆÇÈÉÊËÌÍÎÏÐÑÒÓÔÕÖ×ØÙÚÛÜÝÞßàáâãäåæçèéêëìíîïðñòóôõö÷øùúûüýþÿ"

\* for each high byte from 1 to 255 that is not of a surrogate, the characters with the
\* low bytes 128 to 255
UpperHalves ==
    "ƀƁƂƃƄƅƆƇƈƉƊƋƌƍƎƏƐƑƒƓƔƕƖƗƘƙƚƛƜƝƞƟƠơƢƣƤƥƦƧƨƩƪƫƬƭƮƯưƱƲƳƴƵƶƷƸƹƺƻƼƽƾƿǀǁǂǃǄǅǆǇǈǉǊǋǌǍǎǏǐǑǒǓǔǕǖǗǘǙǚǛǜǝǞǟǠǡǢǣǤǥǦǧǨǩǪǫǬǭǮǯǰǱǲǳǴǵǶǷǸǹǺǻǼǽǾǿʀʁʂʃʄʅʆʇʈʉʊʋʌʍʎʏʐʑʒʓʔʕʖʗʘʙʚʛʜʝʞʟʠʡʢʣʤʥʦʧʨʩʪʫʬʭʮʯʰʱʲʳʴʵʶʷʸʹʺʻʼʽʾʿˀˁ˂˃˄˅ˆˇˈˉˊˋˌˍˎˏːˑ˒˓˔˕˖˗˘˙˚˛˜˝˞˟ˠˡˢˣˤ˥˦˧˨˩˪˫ˬ˭ˮ˯˰˱˲˳˴˵˶˷˸˹˺˻˼˽˾˿΀΁΂΃΄΅Ά·ΈΉΊ΋Ό΍ΎΏΐΑΒΓΔΕΖΗΘΙΚΛΜΝΞΟΠΡ΢ΣΤΥΦΧΨΩΪΫάέήίΰαβγδεζηθικλμνξοπρςστυφχψωϊϋόύώϏϐϑϒϓϔϕϖϗϘϙϚϛϜϝϞϟϠϡϢϣϤϥϦϧϨϩϪϫϬϭϮϯϰϱϲϳϴϵ϶ϷϸϹϺϻϼϽϾϿҀҁ҂҃҄҅҆҇҈҉ҊҋҌҍҎҏҐґҒғҔҕҖҗҘҙҚқҜҝҞҟҠҡҢңҤҥҦҧҨҩҪҫҬҭҮүҰұҲҳҴҵҶҷҸҹҺһҼҽҾҿӀӁӂӃӄӅӆӇӈӉӊӋӌӍӎӏӐӑӒӓӔӕӖӗӘәӚӛӜӝӞӟӠӡӢӣӤӥӦӧӨөӪӫӬӭӮӯӰӱӲӳӴӵӶӷӸӹӺӻӼӽӾӿրցւփքօֆևֈ։֊֋֌֍֎֏֐ְֱֲֳִֵֶַָֹֺֻּֽ֑֖֛֢֣֤֥֦֧֪֚֭֮֒֓֔֕֗֘֙֜֝֞֟֠֡֨֩֫֬֯־ֿ׀ׁׂ׃ׅׄ׆ׇ׈׉׊׋׌׍׎׏אבגדהוזחטיךכלםמןנסעףפץצקרשת׫׬׭׮ׯװױײ׳״׵׶׷׸׹׺׻׼׽׾׿ڀځڂڃڄڅچڇڈډڊڋڌڍڎڏڐڑڒړڔڕږڗژڙښڛڜڝڞڟڠڡڢڣڤڥڦڧڨکڪګڬڭڮگڰڱڲڳڴڵڶڷڸڹںڻڼڽھڿۀہۂۃۄۅۆۇۈۉۊۋیۍێۏېۑےۓ۔ەۖۗۘۙۚۛۜ۝۞ۣ۟۠ۡۢۤۥۦۧۨ۩۪ۭ۫۬ۮۯ۰۱۲۳۴۵۶۷۸۹ۺۻۼ۽۾ۿހށނރބޅކއވމފދތލގޏސޑޒޓޔޕޖޗޘޙޚޛޜޝޞޟޠޡޢޣޤޥަާިީުޫެޭޮޯްޱ޲޳޴޵޶޷޸޹޺޻޼޽޾޿߀߁߂߃߄߅߆߇߈߉ߊߋߌߍߎߏߐߑߒߓߔߕߖߗߘߙߚߛߜߝߞߟߠߡߢߣߤߥߦߧߨߩߪ߲߫߬߭߮߯߰߱߳ߴߵ߶߷߸߹ߺ߻߼߽߾߿ࢀࢁࢂࢃࢄࢅࢆࢇ࢈ࢉࢊࢋࢌࢍࢎ࢏࢐࢑࢒࢓࢔࢕࢖࢙࢚࢛ࢗ࢘࢜࢝࢞࢟ࢠࢡࢢࢣࢤࢥࢦࢧࢨࢩࢪࢫࢬࢭࢮࢯࢰࢱࢲࢳࢴࢵࢶࢷࢸࢹࢺࢻࢼࢽࢾࢿࣀࣁࣂࣃࣄࣅࣆࣇࣈࣉ࣏࣐࣑࣒࣓࣊࣋࣌࣍࣎ࣔࣕࣖࣗࣘࣙࣚࣛࣜࣝࣞࣟ࣠࣡࣢ࣰࣱࣲࣣࣦࣩ࣭࣮࣯ࣶࣹࣺࣤࣥࣧࣨ࣪࣫࣬ࣳࣴࣵࣷࣸࣻࣼࣽࣾࣿঀঁংঃ঄অআইঈউঊঋঌ঍঎এঐ঑঒ওঔকখগঘঙচছজঝঞটঠডঢণতথদধন঩পফবভমযর঱ল঳঴঵শষসহ঺঻়ঽািীুূৃৄ৅৆েৈ৉৊োৌ্ৎ৏৐৑৒৓৔৕৖ৗ৘৙৚৛ড়ঢ়৞য়ৠৡৢৣ৤৥০১২৩৪৫৬৭৮৯ৰৱ৲৳৴৵৶৷৸৹৺৻ৼ৽৾৿઀ઁંઃ઄અઆઇઈઉઊઋઌઍ઎એઐઑ઒ઓઔકખગઘઙચછજઝઞટઠડઢણતથદધન઩પફબભમયર઱લળ઴વશષસહ઺઻઼ઽાિીુૂૃૄૅ૆ેૈૉ૊ોૌ્૎૏ૐ૑૒૓૔૕૖૗૘૙૚૛૜૝૞૟ૠૡૢૣ૤૥૦૧૨૩૪૫૬૭૮૯૰૱૲૳૴૵૶૷૸ૹૺૻૼ૽૾૿஀஁ஂஃ஄அஆஇஈஉஊ஋஌஍எஏஐ஑ஒஓஔக஖஗஘ஙச஛ஜ஝ஞட஠஡஢ணத஥஦஧நனப஫஬஭மயரறலளழவஶஷஸஹ஺஻஼஽ாிீுூ௃௄௅ெேை௉ொோௌ்௎௏ௐ௑௒௓௔௕௖ௗ௘௙௚௛௜௝௞௟௠௡௢௣௤௥௦௧௨௩௪௫௬௭௮௯௰௱௲௳௴௵௶௷௸௹௺௻௼௽௾௿ಀಁಂಃ಄ಅಆಇಈಉಊಋಌ಍ಎಏಐ಑ಒಓಔಕಖಗಘಙಚಛಜಝಞಟಠಡಢಣತಥದಧನ಩ಪಫಬಭಮಯರಱಲಳ಴ವಶಷಸಹ಺಻಼ಽಾಿೀುೂೃೄ೅ೆೇೈ೉ೊೋೌ್೎೏೐೑೒೓೔ೕೖ೗೘೙೚೛೜ೝೞ೟ೠೡೢೣ೤೥೦೧೨೩೪೫೬೭೮೯೰ೱೲೳ೴೵೶೷೸೹೺೻೼೽೾೿඀ඁංඃ඄අආඇඈඉඊඋඌඍඎඏඐඑඒඓඔඕඖ඗඘඙කඛගඝඞඟචඡජඣඤඥඦටඨඩඪණඬතථදධන඲ඳපඵබභමඹයර඼ල඾඿වශෂසහළෆ෇෈෉්෋෌෍෎ාැෑිීු෕ූ෗ෘෙේෛොෝෞෟ෠෡෢෣෤෥෦෧෨෩෪෫෬෭෮෯෰෱ෲෳ෴෵෶෷෸෹෺෻෼෽෾෿຀ກຂ຃ຄ຅ຆງຈຉຊ຋ຌຍຎຏຐຑຒຓດຕຖທຘນບປຜຝພຟຠມຢຣ຤ລ຦ວຨຩສຫຬອຮຯະັາຳິີຶື຺ຸູົຼຽ຾຿ເແໂໃໄ໅ໆ໇່້໊໋໌ໍ໎໏໐໑໒໓໔໕໖໗໘໙໚໛ໜໝໞໟ໠໡໢໣໤໥໦໧໨໩໪໫໬໭໮໯໰໱໲໳໴໵໶໷໸໹໺໻໼໽໾໿྄ཱྀྀྂྃ྅྆྇ྈྉྊྋྌྍྎྏྐྑྒྒྷྔྕྖྗ྘ྙྚྛྜྜྷྞྟྠྡྡྷྣྤྥྦྦྷྨྩྪྫྫྷྭྮྯྰྱྲླྴྵྶྷྸྐྵྺྻྼ྽྾྿࿀࿁࿂࿃࿄࿅࿆࿇࿈࿉࿊࿋࿌࿍࿎࿏࿐࿑࿒࿓࿔࿕࿖࿗࿘࿙࿚࿛࿜࿝࿞࿟࿠࿡࿢࿣࿤࿥࿦࿧࿨࿩࿪࿫࿬࿭࿮࿯࿰࿱࿲࿳࿴࿵࿶࿷࿸࿹࿺࿻࿼࿽࿾࿿ႀႁႂႃႄႅႆႇႈႉႊႋႌႍႎႏ႐႑႒႓႔႕႖႗႘႙ႚႛႜႝ႞႟ႠႡႢႣႤႥႦႧႨႩႪႫႬႭႮႯႰႱႲႳႴႵႶႷႸႹႺႻႼႽႾႿჀჁჂჃჄჅ჆Ⴧ჈჉჊჋჌Ⴭ჎჏აბგდევზთიკლმნოპჟრსტუფქღყშჩცძწჭხჯჰჱჲჳჴჵჶჷჸჹჺ჻ჼჽჾჿ"
    \o "ᆀᆁᆂᆃᆄᆅᆆᆇᆈᆉᆊᆋᆌᆍᆎᆏᆐᆑᆒᆓᆔᆕᆖᆗᆘᆙᆚᆛᆜᆝᆞᆟᆠᆡᆢᆣᆤᆥᆦᆧᆨᆩᆪᆫᆬᆭᆮᆯᆰᆱᆲᆳᆴᆵᆶᆷᆸᆹᆺᆻᆼᆽᆾᆿᇀᇁᇂᇃᇄᇅᇆᇇᇈᇉᇊᇋᇌᇍᇎᇏᇐᇑᇒᇓᇔᇕᇖᇗᇘᇙᇚᇛᇜᇝᇞᇟᇠᇡᇢᇣᇤᇥᇦᇧᇨᇩᇪᇫᇬᇭᇮᇯᇰᇱᇲᇳᇴᇵᇶᇷᇸᇹᇺᇻᇼᇽᇾᇿኀኁኂኃኄኅኆኇኈ኉ኊኋኌኍ኎኏ነኑኒናኔንኖኗኘኙኚኛኜኝኞኟአኡኢኣኤእኦኧከኩኪካኬክኮኯኰ኱ኲኳኴኵ኶኷ኸኹኺኻኼኽኾ኿ዀ዁ዂዃዄዅ዆዇ወዉዊዋዌውዎዏዐዑዒዓዔዕዖ዗ዘዙዚዛዜዝዞዟዠዡዢዣዤዥዦዧየዩዪያዬይዮዯደዱዲዳዴድዶዷዸዹዺዻዼዽዾዿᎀᎁᎂᎃᎄᎅᎆᎇᎈᎉᎊᎋᎌᎍᎎᎏ᎐᎑᎒᎓᎔᎕᎖᎗᎘᎙᎚᎛᎜᎝᎞᎟ᎠᎡᎢᎣᎤᎥᎦᎧᎨᎩᎪᎫᎬᎭᎮᎯᎰᎱᎲᎳᎴᎵᎶᎷᎸᎹᎺᎻᎼᎽᎾᎿᏀᏁᏂᏃᏄᏅᏆᏇᏈᏉᏊᏋᏌᏍᏎᏏᏐᏑᏒᏓᏔᏕᏖᏗᏘᏙᏚᏛᏜᏝᏞᏟᏠᏡᏢᏣᏤᏥᏦᏧᏨᏩᏪᏫᏬᏭᏮᏯᏰᏱᏲᏳᏴᏵ᏶᏷ᏸᏹᏺᏻᏼᏽ᏾᏿ᒀᒁᒂᒃᒄᒅᒆᒇᒈᒉᒊᒋᒌᒍᒎᒏᒐᒑᒒᒓᒔᒕᒖᒗᒘᒙᒚᒛᒜᒝᒞᒟᒠᒡᒢᒣᒤᒥᒦᒧᒨᒩᒪᒫᒬᒭᒮᒯᒰᒱᒲᒳᒴᒵᒶᒷᒸᒹᒺᒻᒼᒽᒾᒿᓀᓁᓂᓃᓄᓅᓆᓇᓈᓉᓊᓋᓌᓍᓎᓏᓐᓑᓒᓓᓔᓕᓖᓗᓘᓙᓚᓛᓜᓝᓞᓟᓠᓡᓢᓣᓤᓥᓦᓧᓨᓩᓪᓫᓬᓭᓮᓯᓰᓱᓲᓳᓴᓵᓶᓷᓸᓹᓺᓻᓼᓽᓾᓿᖀᖁᖂᖃᖄᖅᖆᖇᖈᖉᖊᖋᖌᖍᖎᖏᖐᖑᖒᖓᖔᖕᖖᖗᖘᖙᖚᖛᖜᖝᖞᖟᖠᖡᖢᖣᖤᖥᖦᖧᖨᖩᖪᖫᖬᖭᖮᖯᖰᖱᖲᖳᖴᖵᖶᖷᖸᖹᖺᖻᖼᖽᖾᖿᗀᗁᗂᗃᗄᗅᗆᗇᗈᗉᗊᗋᗌᗍᗎᗏᗐᗑᗒᗓᗔᗕᗖᗗᗘᗙᗚᗛᗜᗝᗞᗟᗠᗡᗢᗣᗤᗥᗦᗧᗨᗩᗪᗫᗬᗭᗮᗯᗰᗱᗲᗳᗴᗵᗶᗷᗸᗹᗺᗻᗼᗽᗾᗿ ᚁᚂᚃᚄᚅᚆᚇᚈᚉᚊᚋᚌᚍᚎᚏᚐᚑᚒᚓᚔᚕᚖᚗᚘᚙᚚ᚛᚜᚝᚞᚟ᚠᚡᚢᚣᚤᚥᚦᚧᚨᚩᚪᚫᚬᚭᚮᚯᚰᚱᚲᚳᚴᚵᚶᚷᚸᚹᚺᚻᚼᚽᚾᚿᛀᛁᛂᛃᛄᛅᛆᛇᛈᛉᛊᛋᛌᛍᛎᛏᛐᛑᛒᛓᛔᛕᛖᛗᛘᛙᛚᛛᛜᛝᛞᛟᛠᛡᛢᛣᛤᛥᛦᛧᛨᛩᛪ᛫᛬᛭ᛮᛯᛰᛱᛲᛳᛴᛵᛶᛷᛸ᛹᛺᛻᛼᛽᛾᛿កខគឃងចឆជឈញដឋឌឍណតថទធនបផពភមយរលវឝឞសហឡអឣឤឥឦឧឨឩឪឫឬឭឮឯឰឱឲឳ឴឵ាិីឹឺុូួើឿៀេែៃោៅំះៈ៉៊់៌៍៎៏័៑្៓។៕៖ៗ៘៙៚៛ៜ៝៞៟០១២៣៤៥៦៧៨៩៪៫៬៭៮៯៰៱៲៳៴៵៶៷៸៹៺៻៼៽៾៿ᢀᢁᢂᢃᢄᢅᢆᢇᢈᢉᢊᢋᢌᢍᢎᢏᢐᢑᢒᢓᢔᢕᢖᢗᢘᢙᢚᢛᢜᢝᢞᢟᢠᢡᢢᢣᢤᢥᢦᢧᢨᢩᢪ᢫᢬᢭᢮᢯ᢰᢱᢲᢳᢴᢵᢶᢷᢸᢹᢺᢻᢼᢽᢾᢿᣀᣁᣂᣃᣄᣅᣆᣇᣈᣉᣊᣋᣌᣍᣎᣏᣐᣑᣒᣓᣔᣕᣖᣗᣘᣙᣚᣛᣜᣝᣞᣟᣠᣡᣢᣣᣤᣥᣦᣧᣨᣩᣪᣫᣬᣭᣮᣯᣰᣱᣲᣳᣴᣵ᣶᣷᣸᣹᣺᣻᣼᣽᣾᣿ᦀᦁᦂᦃᦄᦅᦆᦇᦈᦉᦊᦋᦌᦍᦎᦏᦐᦑᦒᦓᦔᦕᦖᦗᦘᦙᦚᦛᦜᦝᦞᦟᦠᦡᦢᦣᦤᦥᦦᦧᦨᦩᦪᦫ᦬᦭᦮᦯ᦰᦱᦲᦳᦴᦵᦶᦷᦸᦹᦺᦻᦼᦽᦾᦿᧀᧁᧂᧃᧄᧅᧆᧇᧈᧉ᧊᧋᧌᧍᧎᧏᧐᧑᧒᧓᧔᧕᧖᧗᧘᧙᧚᧛᧜᧝᧞᧟᧠᧡᧢᧣᧤᧥᧦᧧᧨᧩᧪᧫᧬᧭᧮᧯᧰᧱᧲᧳᧴᧵᧶᧷᧸᧹᧺᧻᧼᧽᧾᧿᪀᪁᪂᪃᪄᪅᪆᪇᪈᪉᪊᪋᪌᪍᪎᪏᪐᪑᪒᪓᪔᪕᪖᪗᪘᪙᪚᪛᪜᪝᪞᪟᪠᪡᪢᪣᪤᪥᪦ᪧ᪨᪩᪪᪫᪬᪭᪮᪯᪵᪶᪷᪸᪹᪺᪽᪰᪱᪲᪳᪴᪻᪼᪾ᪿᫀ᫃᫄᫊᫁᫂᫅᫆᫇᫈᫉᫋ᫌᫍᫎ᫏᫐᫑᫒᫓᫔᫕᫖᫗᫘᫙᫚᫛᫜᫝᫞᫟᫠᫡᫢᫣᫤᫥᫦᫧᫨᫩᫪᫫᫬᫭᫮᫯᫰᫱᫲᫳᫴᫵᫶᫷᫸᫹᫺᫻᫼᫽᫾᫿ᮀᮁᮂᮃᮄᮅᮆᮇᮈᮉᮊᮋᮌᮍᮎᮏᮐᮑᮒᮓᮔᮕᮖᮗᮘᮙᮚᮛᮜᮝᮞᮟᮠᮡᮢᮣᮤᮥᮦᮧᮨᮩ᮪᮫ᮬᮭᮮᮯ᮰᮱᮲᮳᮴᮵᮶᮷᮸᮹ᮺᮻᮼᮽᮾᮿᯀᯁᯂᯃᯄᯅᯆᯇᯈᯉᯊᯋᯌᯍᯎᯏᯐᯑᯒᯓᯔᯕᯖᯗᯘᯙᯚᯛᯜᯝᯞᯟᯠᯡᯢᯣᯤᯥ᯦ᯧᯨᯩᯪᯫᯬᯭᯮᯯᯰᯱ᯲᯳᯴᯵᯶᯷᯸᯹᯺᯻᯼᯽᯾᯿ᲀᲁᲂᲃᲄᲅᲆᲇᲈᲉᲊ᲋᲌᲍᲎᲏ᲐᲑᲒᲓᲔᲕᲖᲗᲘᲙᲚᲛᲜᲝᲞᲟᲠᲡᲢᲣᲤᲥᲦᲧᲨᲩᲪᲫᲬᲭᲮᲯᲰᲱᲲᲳᲴᲵᲶᲷᲸᲹᲺ᲻᲼ᲽᲾᲿ᳀᳁᳂᳃᳄᳅᳆᳇᳈᳉᳊᳋᳌᳍᳎᳏᳐᳑᳒᳓᳔᳕᳖᳗᳘᳙᳜᳝᳞᳟᳚᳛᳠᳡᳢᳣᳤᳥᳦᳧᳨ᳩᳪᳫᳬ᳭ᳮᳯᳰᳱᳲᳳ᳴ᳵᳶ᳷᳸᳹ᳺ᳻᳼᳽᳾᳿ᶀᶁᶂᶃᶄᶅᶆᶇᶈᶉᶊᶋᶌᶍᶎᶏᶐᶑᶒᶓᶔᶕᶖᶗᶘᶙᶚᶛᶜᶝᶞᶟᶠᶡᶢᶣᶤᶥᶦᶧᶨᶩᶪᶫᶬᶭᶮᶯᶰᶱᶲᶳᶴᶵᶶᶷᶸᶹᶺᶻᶼᶽᶾᶿ᷐᷎᷺᷂᷊᷏᷹᷽᷿᷷᷸᷀᷁᷃᷄᷅᷆᷇᷈᷉᷋᷌᷑᷒ᷓᷔᷕᷖᷗᷘᷙᷚᷛᷜᷝᷞᷟᷠᷡᷢᷣᷤᷥᷦᷧᷨᷩᷪᷫᷬᷭᷮᷯᷰᷱᷲᷳᷴ᷵᷻᷾᷶᷼᷍ẀẁẂẃẄẅẆẇẈẉẊẋẌẍẎẏẐẑẒẓẔẕẖẗẘẙẚẛẜẝẞẟẠạẢảẤấẦầẨẩẪẫẬậẮắẰằẲẳẴẵẶặẸẹẺẻẼẽẾếỀềỂểỄễỆệỈỉỊịỌọỎỏỐốỒồỔổỖỗỘộỚớỜờỞởỠỡỢợỤụỦủỨứỪừỬửỮữỰựỲỳỴỵỶỷỸỹỺỻỼỽỾỿᾀᾁᾂᾃᾄᾅᾆᾇᾈᾉᾊᾋᾌᾍᾎᾏᾐᾑᾒᾓᾔᾕᾖᾗᾘᾙᾚᾛᾜᾝᾞᾟᾠᾡᾢᾣᾤᾥᾦᾧᾨᾩᾪᾫᾬᾭᾮᾯᾰᾱᾲᾳᾴ᾵ᾶᾷᾸᾹᾺΆᾼ᾽ι᾿῀῁ῂῃῄ῅ῆῇῈΈῊΉῌ῍῎῏ῐῑῒΐ῔῕ῖῗῘῙῚΊ῜῝῞῟ῠῡῢΰῤῥῦῧῨῩῪΎῬ῭΅`῰῱ῲῳῴ῵ῶῷῸΌῺΏῼ´῾῿₀₁₂₃₄₅₆₇₈₉₊₋₌₍₎₏ₐₑₒₓₔₕₖₗₘₙₚₛₜ₝₞₟₠₡₢₣₤₥₦₧₨₩₪₫€₭₮₯₰₱₲₳₴₵₶₷₸₹₺₻₼₽₾₿⃀⃁⃂⃃⃄⃅⃆⃇⃈⃉⃊⃋⃌⃍⃎⃏⃒⃓⃘⃙⃚⃐⃑⃔⃕⃖⃗⃛⃜⃝⃞⃟⃠⃡⃢⃣⃤⃥⃦⃪⃫⃨⃬⃭⃮⃯⃧⃩⃰⃱⃲⃳⃴⃵⃶⃷⃸⃹⃺⃻⃼⃽⃾⃿"
    \o "ↀↁↂↃↄↅↆↇↈ↉↊↋↌↍↎↏←↑→↓↔↕↖↗↘↙↚↛↜↝↞↟↠↡↢↣↤↥↦↧↨↩↪↫↬↭↮↯↰↱↲↳↴↵↶↷↸↹↺↻↼↽↾↿⇀⇁⇂⇃⇄⇅⇆⇇⇈⇉⇊⇋⇌⇍⇎⇏⇐⇑⇒⇓⇔⇕⇖⇗⇘⇙⇚⇛⇜⇝⇞⇟⇠⇡⇢⇣⇤⇥⇦⇧⇨⇩⇪⇫⇬⇭⇮⇯⇰⇱⇲⇳⇴⇵⇶⇷⇸⇹⇺⇻⇼⇽⇾⇿⊀⊁⊂⊃⊄⊅⊆⊇⊈⊉⊊⊋⊌⊍⊎⊏⊐⊑⊒⊓⊔⊕⊖⊗⊘⊙⊚⊛⊜⊝⊞⊟⊠⊡⊢⊣⊤⊥⊦⊧⊨⊩⊪⊫⊬⊭⊮⊯⊰⊱⊲⊳⊴⊵⊶⊷⊸⊹⊺⊻⊼⊽⊾⊿⋀⋁⋂⋃⋄⋅⋆⋇⋈⋉⋊⋋⋌⋍⋎⋏⋐⋑⋒⋓⋔⋕⋖⋗⋘⋙⋚⋛⋜⋝⋞⋟⋠⋡⋢⋣⋤⋥⋦⋧⋨⋩⋪⋫⋬⋭⋮⋯⋰⋱⋲⋳⋴⋵⋶⋷⋸⋹⋺⋻⋼⋽⋾⋿⎀⎁⎂⎃⎄⎅⎆⎇⎈⎉⎊⎋⎌⎍⎎⎏⎐⎑⎒⎓⎔⎕⎖⎗⎘⎙⎚⎛⎜⎝⎞⎟⎠⎡⎢⎣⎤⎥⎦⎧⎨⎩⎪⎫⎬⎭⎮⎯⎰⎱⎲⎳⎴⎵⎶⎷⎸⎹⎺⎻⎼⎽⎾⎿⏀⏁⏂⏃⏄⏅⏆⏇⏈⏉⏊⏋⏌⏍⏎⏏⏐⏑⏒⏓⏔⏕⏖⏗⏘⏙⏚⏛⏜⏝⏞⏟⏠⏡⏢⏣⏤⏥⏦⏧⏨⏩⏪⏫⏬⏭⏮⏯⏰⏱⏲⏳⏴⏵⏶⏷⏸⏹⏺⏻⏼⏽⏾⏿⒀⒁⒂⒃⒄⒅⒆⒇⒈⒉⒊⒋⒌⒍⒎⒏⒐⒑⒒⒓⒔⒕⒖⒗⒘⒙⒚⒛⒜⒝⒞⒟⒠⒡⒢⒣⒤⒥⒦⒧⒨⒩⒪⒫⒬⒭⒮⒯⒰⒱⒲⒳⒴⒵ⒶⒷⒸⒹⒺⒻⒼⒽⒾⒿⓀⓁⓂⓃⓄⓅⓆⓇⓈⓉⓊⓋⓌⓍⓎⓏⓐⓑⓒⓓⓔⓕⓖⓗⓘⓙⓚⓛⓜⓝⓞⓟⓠⓡⓢⓣⓤⓥⓦⓧⓨⓩ⓪⓫⓬⓭⓮⓯⓰⓱⓲⓳⓴⓵⓶⓷⓸⓹⓺⓻⓼⓽⓾⓿▀▁▂▃▄▅▆▇█▉▊▋▌▍▎▏▐░▒▓▔▕▖▗▘▙▚▛▜▝▞▟■□▢▣▤▥▦▧▨▩▪▫▬▭▮▯▰▱▲△▴▵▶▷▸▹►▻▼▽▾▿◀◁◂◃◄◅◆◇◈◉◊○◌◍◎●◐◑◒◓◔◕◖◗◘◙◚◛◜◝◞◟◠◡◢◣◤◥◦◧◨◩◪◫◬◭◮◯◰◱◲◳◴◵◶◷◸◹◺◻◼◽◾◿⚀⚁⚂⚃⚄⚅⚆⚇⚈⚉⚊⚋⚌⚍⚎⚏⚐⚑⚒⚓⚔⚕⚖⚗⚘⚙⚚⚛⚜⚝⚞⚟⚠⚡⚢⚣⚤⚥⚦⚧⚨⚩⚪⚫⚬⚭⚮⚯⚰⚱⚲⚳⚴⚵⚶⚷⚸⚹⚺⚻⚼⚽⚾⚿⛀⛁⛂⛃⛄⛅⛆⛇⛈⛉⛊⛋⛌⛍⛎⛏⛐⛑⛒⛓⛔⛕⛖⛗⛘⛙⛚⛛⛜⛝⛞⛟⛠⛡⛢⛣⛤⛥⛦⛧⛨⛩⛪⛫⛬⛭⛮⛯⛰⛱⛲⛳⛴⛵⛶⛷⛸⛹⛺⛻⛼⛽⛾⛿➀➁➂➃➄➅➆➇➈➉➊➋➌➍➎➏➐➑➒➓➔➕➖➗➘➙➚➛➜➝➞➟➠➡➢➣➤➥➦➧➨➩➪➫➬➭➮➯➰➱➲➳➴➵➶➷➸➹➺➻➼➽➾➿⟀⟁⟂⟃⟄⟅⟆⟇⟈⟉⟊⟋⟌⟍⟎⟏⟐⟑⟒⟓⟔⟕⟖⟗⟘⟙⟚⟛⟜⟝⟞⟟⟠⟡⟢⟣⟤⟥⟦⟧⟨⟩⟪⟫⟬⟭⟮⟯⟰⟱⟲⟳⟴⟵⟶⟷⟸⟹⟺⟻⟼⟽⟾⟿⢀⢁⢂⢃⢄⢅⢆⢇⢈⢉⢊⢋⢌⢍⢎⢏⢐⢑⢒⢓⢔⢕⢖⢗⢘⢙⢚⢛⢜⢝⢞⢟⢠⢡⢢⢣⢤⢥⢦⢧⢨⢩⢪⢫⢬⢭⢮⢯⢰⢱⢲⢳⢴⢵⢶⢷⢸⢹⢺⢻⢼⢽⢾⢿⣀⣁⣂⣃⣄⣅⣆⣇⣈⣉⣊⣋⣌⣍⣎⣏⣐⣑⣒⣓⣔⣕⣖⣗⣘⣙⣚⣛⣜⣝⣞⣟⣠⣡⣢⣣⣤⣥⣦⣧⣨⣩⣪⣫⣬⣭⣮⣯⣰⣱⣲⣳⣴⣵⣶⣷⣸⣹⣺⣻⣼⣽⣾⣿⦀⦁⦂⦃⦄⦅⦆⦇⦈⦉⦊⦋⦌⦍⦎⦏⦐⦑⦒⦓⦔⦕⦖⦗⦘⦙⦚⦛⦜⦝⦞⦟⦠⦡⦢⦣⦤⦥⦦⦧⦨⦩⦪⦫⦬⦭⦮⦯⦰⦱⦲⦳⦴⦵⦶⦷⦸⦹⦺⦻⦼⦽⦾⦿⧀⧁⧂⧃⧄⧅⧆⧇⧈⧉⧊⧋⧌⧍⧎⧏⧐⧑⧒⧓⧔⧕⧖⧗⧘⧙⧚⧛⧜⧝⧞⧟⧠⧡⧢⧣⧤⧥⧦⧧⧨⧩⧪⧫⧬⧭⧮⧯⧰⧱⧲⧳⧴⧵⧶⧷⧸⧹⧺⧻⧼⧽⧾⧿⪀⪁⪂⪃⪄⪅⪆⪇⪈⪉⪊⪋⪌⪍⪎⪏⪐⪑⪒⪓⪔⪕⪖⪗⪘⪙⪚⪛⪜⪝⪞⪟⪠⪡⪢⪣⪤⪥⪦⪧⪨⪩⪪⪫⪬⪭⪮⪯⪰⪱⪲⪳⪴⪵⪶⪷⪸⪹⪺⪻⪼⪽⪾⪿⫀⫁⫂⫃⫄⫅⫆⫇⫈⫉⫊⫋⫌⫍⫎⫏⫐⫑⫒⫓⫔⫕⫖⫗⫘⫙⫚⫛⫝̸⫝⫞⫟⫠⫡⫢⫣⫤⫥⫦⫧⫨⫩⫪⫫⫬⫭⫮⫯⫰⫱⫲⫳⫴⫵⫶⫷⫸⫹⫺⫻⫼⫽⫾⫿⮀⮁⮂⮃⮄⮅⮆⮇⮈⮉⮊⮋⮌⮍⮎⮏⮐⮑⮒⮓⮔⮕⮖⮗⮘⮙⮚⮛⮜⮝⮞⮟⮠⮡⮢⮣⮤⮥⮦⮧⮨⮩⮪⮫⮬⮭⮮⮯⮰⮱⮲⮳⮴⮵⮶⮷⮸⮹⮺⮻⮼⮽⮾⮿⯀⯁⯂⯃⯄⯅⯆⯇⯈⯉⯊⯋⯌⯍⯎⯏⯐⯑⯒⯓⯔⯕⯖⯗⯘⯙⯚⯛⯜⯝⯞⯟⯠⯡⯢⯣⯤⯥⯦⯧⯨⯩⯪⯫⯬⯭⯮⯯⯰⯱⯲⯳⯴⯵⯶⯷⯸⯹⯺⯻⯼⯽⯾⯿ⲀⲁⲂⲃⲄⲅⲆⲇⲈⲉⲊⲋⲌⲍⲎⲏⲐⲑⲒⲓⲔⲕⲖⲗⲘⲙⲚⲛⲜⲝⲞⲟⲠⲡⲢⲣⲤⲥⲦⲧⲨⲩⲪⲫⲬⲭⲮⲯⲰⲱⲲⲳⲴⲵⲶⲷⲸⲹⲺⲻⲼⲽⲾⲿⳀⳁⳂⳃⳄⳅⳆⳇⳈⳉⳊⳋⳌⳍⳎⳏⳐⳑⳒⳓⳔⳕⳖⳗⳘⳙⳚⳛⳜⳝⳞⳟⳠⳡⳢⳣⳤ⳥⳦⳧⳨⳩⳪ⳫⳬⳭⳮ⳯⳰⳱Ⳳⳳ⳴⳵⳶⳷⳸⳹⳺⳻⳼⳽⳾⳿ⶀⶁⶂⶃⶄⶅⶆⶇⶈⶉⶊⶋⶌⶍⶎⶏⶐⶑⶒⶓⶔⶕⶖ⶗⶘⶙⶚⶛⶜⶝⶞⶟ⶠⶡⶢⶣⶤⶥⶦ⶧ⶨⶩⶪⶫⶬⶭⶮ⶯ⶰⶱⶲⶳⶴⶵⶶ⶷ⶸⶹⶺⶻⶼⶽⶾ⶿ⷀⷁⷂⷃⷄⷅⷆ⷇ⷈⷉⷊⷋⷌⷍⷎ⷏ⷐⷑⷒⷓⷔⷕⷖ⷗ⷘⷙⷚⷛⷜⷝⷞ⷟ⷠⷡⷢⷣⷤⷥⷦⷧⷨⷩⷪⷫⷬⷭⷮⷯⷰⷱⷲⷳⷴⷵⷶⷷⷸⷹⷺⷻⷼⷽⷾⷿ⺀⺁⺂⺃⺄⺅⺆⺇⺈⺉⺊⺋⺌⺍⺎⺏⺐⺑⺒⺓⺔⺕⺖⺗⺘⺙⺚⺛⺜⺝⺞⺟⺠⺡⺢⺣⺤⺥⺦⺧⺨⺩⺪⺫⺬⺭⺮⺯⺰⺱⺲⺳⺴⺵⺶⺷⺸⺹⺺⺻⺼⺽⺾⺿⻀⻁⻂⻃⻄⻅⻆⻇⻈⻉⻊⻋⻌⻍⻎⻏⻐⻑⻒⻓⻔⻕⻖⻗⻘⻙⻚⻛⻜⻝⻞⻟⻠⻡⻢⻣⻤⻥⻦⻧⻨⻩⻪⻫⻬⻭⻮⻯⻰⻱⻲⻳⻴⻵⻶⻷⻸⻹⻺⻻⻼⻽⻾⻿⾀⾁⾂⾃⾄⾅⾆⾇⾈⾉⾊⾋⾌⾍⾎⾏⾐⾑⾒⾓⾔⾕⾖⾗⾘⾙⾚⾛⾜⾝⾞⾟⾠⾡⾢⾣⾤⾥⾦⾧⾨⾩⾪⾫⾬⾭⾮⾯⾰⾱⾲⾳⾴⾵⾶⾷⾸⾹⾺⾻⾼⾽⾾⾿⿀⿁⿂⿃⿄⿅⿆⿇⿈⿉⿊⿋⿌⿍⿎⿏⿐⿑⿒⿓⿔⿕⿖⿗⿘⿙⿚⿛⿜⿝⿞⿟⿠⿡⿢⿣⿤⿥⿦⿧⿨⿩⿪⿫⿬⿭⿮⿯⿰⿱⿲⿳⿴⿵⿶⿷⿸⿹⿺⿻⿼⿽⿾⿿むめもゃやゅゆょよらりるれろゎわゐゑをんゔゕゖ゗゘゙゚゛゜ゝゞゟ゠ァアィイゥウェエォオカガキギクグケゲコゴサザシジスズセゼソゾタダチヂッツヅテデトドナニヌネノハバパヒビピフブプヘベペホボポマミムメモャヤュユョヨラリルレロヮワヰヱヲンヴヵヶヷヸヹヺ・ーヽヾヿ"
    \o "ㆀㆁㆂㆃㆄㆅㆆㆇㆈㆉㆊㆋㆌㆍㆎ㆏㆐㆑㆒㆓㆔㆕㆖㆗㆘㆙㆚㆛㆜㆝㆞㆟ㆠㆡㆢㆣㆤㆥㆦㆧㆨㆩㆪㆫㆬㆭㆮㆯㆰㆱㆲㆳㆴㆵㆶㆷㆸㆹㆺㆻㆼㆽㆾㆿ㇀㇁㇂㇃㇄㇅㇆㇇㇈㇉㇊㇋㇌㇍㇎㇏㇐㇑㇒㇓㇔㇕㇖㇗㇘㇙㇚㇛㇜㇝㇞㇟㇠㇡㇢㇣㇤㇥㇦㇧㇨㇩㇪㇫㇬㇭㇮㇯ㇰㇱㇲㇳㇴㇵㇶㇷㇸㇹㇺㇻㇼㇽㇾㇿ㊀㊁㊂㊃㊄㊅㊆㊇㊈㊉㊊㊋㊌㊍㊎㊏㊐㊑㊒㊓㊔㊕㊖㊗㊘㊙㊚㊛㊜㊝㊞㊟㊠㊡㊢㊣㊤㊥㊦㊧㊨㊩㊪㊫㊬㊭㊮㊯㊰㊱㊲㊳㊴㊵㊶㊷㊸㊹㊺㊻㊼㊽㊾㊿㋀㋁㋂㋃㋄㋅㋆㋇㋈㋉㋊㋋㋌㋍㋎㋏㋐㋑㋒㋓㋔㋕㋖㋗㋘㋙㋚㋛㋜㋝㋞㋟㋠㋡㋢㋣㋤㋥㋦㋧㋨㋩㋪㋫㋬㋭㋮㋯㋰㋱㋲㋳㋴㋵㋶㋷㋸㋹㋺㋻㋼㋽㋾㋿㎀㎁㎂㎃㎄㎅㎆㎇㎈㎉㎊㎋㎌㎍㎎㎏㎐㎑㎒㎓㎔㎕㎖㎗㎘㎙㎚㎛㎜㎝㎞㎟㎠㎡㎢㎣㎤㎥㎦㎧㎨㎩㎪㎫㎬㎭㎮㎯㎰㎱㎲㎳㎴㎵㎶㎷㎸㎹㎺㎻㎼㎽㎾㎿㏀㏁㏂㏃㏄㏅㏆㏇㏈㏉㏊㏋㏌㏍㏎㏏㏐㏑㏒㏓㏔㏕㏖㏗㏘㏙㏚㏛㏜㏝㏞㏟㏠㏡㏢㏣㏤㏥㏦㏧㏨㏩㏪㏫㏬㏭㏮㏯㏰㏱㏲㏳㏴㏵㏶㏷㏸㏹㏺㏻㏼㏽㏾㏿㒀㒁㒂㒃㒄㒅㒆㒇㒈㒉㒊㒋㒌㒍㒎㒏㒐㒑㒒㒓㒔㒕㒖㒗㒘㒙㒚㒛㒜㒝㒞㒟㒠㒡㒢㒣㒤㒥㒦㒧㒨㒩㒪㒫㒬㒭㒮㒯㒰㒱㒲㒳㒴㒵㒶㒷㒸㒹㒺㒻㒼㒽㒾㒿㓀㓁㓂㓃㓄㓅㓆㓇㓈㓉㓊㓋㓌㓍㓎㓏㓐㓑㓒㓓㓔㓕㓖㓗㓘㓙㓚㓛㓜㓝㓞㓟㓠㓡㓢㓣㓤㓥㓦㓧㓨㓩㓪㓫㓬㓭㓮㓯㓰㓱㓲㓳㓴㓵㓶㓷㓸㓹㓺㓻㓼㓽㓾㓿㖀㖁㖂㖃㖄㖅㖆㖇㖈㖉㖊㖋㖌㖍㖎㖏㖐㖑㖒㖓㖔㖕㖖㖗㖘㖙㖚㖛㖜㖝㖞㖟㖠㖡㖢㖣㖤㖥㖦㖧㖨㖩㖪㖫㖬㖭㖮㖯㖰㖱㖲㖳㖴㖵㖶㖷㖸㖹㖺㖻㖼㖽㖾㖿㗀㗁㗂㗃㗄㗅㗆㗇㗈㗉㗊㗋㗌㗍㗎㗏㗐㗑㗒㗓㗔㗕㗖㗗㗘㗙㗚㗛㗜㗝㗞㗟㗠㗡㗢㗣㗤㗥㗦㗧㗨㗩㗪㗫㗬㗭㗮㗯㗰㗱㗲㗳㗴㗵㗶㗷㗸㗹㗺㗻㗼㗽㗾㗿㚀㚁㚂㚃㚄㚅㚆㚇㚈㚉㚊㚋㚌㚍㚎㚏㚐㚑㚒㚓㚔㚕㚖㚗㚘㚙㚚㚛㚜㚝㚞㚟㚠㚡㚢㚣㚤㚥㚦㚧㚨㚩㚪㚫㚬㚭㚮㚯㚰㚱㚲㚳㚴㚵㚶㚷㚸㚹㚺㚻㚼㚽㚾㚿㛀㛁㛂㛃㛄㛅㛆㛇㛈㛉㛊㛋㛌㛍㛎㛏㛐㛑㛒㛓㛔㛕㛖㛗㛘㛙㛚㛛㛜㛝㛞㛟㛠㛡㛢㛣㛤㛥㛦㛧㛨㛩㛪㛫㛬㛭㛮㛯㛰㛱㛲㛳㛴㛵㛶㛷㛸㛹㛺㛻㛼㛽㛾㛿㞀㞁㞂㞃㞄㞅㞆㞇㞈㞉㞊㞋㞌㞍㞎㞏㞐㞑㞒㞓㞔㞕㞖㞗㞘㞙㞚㞛㞜㞝㞞㞟㞠㞡㞢㞣㞤㞥㞦㞧㞨㞩㞪㞫㞬㞭㞮㞯㞰㞱㞲㞳㞴㞵㞶㞷㞸㞹㞺㞻㞼㞽㞾㞿㟀㟁㟂㟃㟄㟅㟆㟇㟈㟉㟊㟋㟌㟍㟎㟏㟐㟑㟒㟓㟔㟕㟖㟗㟘㟙㟚㟛㟜㟝㟞㟟㟠㟡㟢㟣㟤㟥㟦㟧㟨㟩㟪㟫㟬㟭㟮㟯㟰㟱㟲㟳㟴㟵㟶㟷㟸㟹㟺㟻㟼㟽㟾㟿㢀㢁㢂㢃㢄㢅㢆㢇㢈㢉㢊㢋㢌㢍㢎㢏㢐㢑㢒㢓㢔㢕㢖㢗㢘㢙㢚㢛㢜㢝㢞㢟㢠㢡㢢㢣㢤㢥㢦㢧㢨㢩㢪㢫㢬㢭㢮㢯㢰㢱㢲㢳㢴㢵㢶㢷㢸㢹㢺㢻㢼㢽㢾㢿㣀㣁㣂㣃㣄㣅㣆㣇㣈㣉㣊㣋㣌㣍㣎㣏㣐㣑㣒㣓㣔㣕㣖㣗㣘㣙㣚㣛㣜㣝㣞㣟㣠㣡㣢㣣㣤㣥㣦㣧㣨㣩㣪㣫㣬㣭㣮㣯㣰㣱㣲㣳㣴㣵㣶㣷㣸㣹㣺㣻㣼㣽㣾㣿㦀㦁㦂㦃㦄㦅㦆㦇㦈㦉㦊㦋㦌㦍㦎㦏㦐㦑㦒㦓㦔㦕㦖㦗㦘㦙㦚㦛㦜㦝㦞㦟㦠㦡㦢㦣㦤㦥㦦㦧㦨㦩㦪㦫㦬㦭㦮㦯㦰㦱㦲㦳㦴㦵㦶㦷㦸㦹㦺㦻㦼㦽㦾㦿㧀㧁㧂㧃㧄㧅㧆㧇㧈㧉㧊㧋㧌㧍㧎㧏㧐㧑㧒㧓㧔㧕㧖㧗㧘㧙㧚㧛㧜㧝㧞㧟㧠㧡㧢㧣㧤㧥㧦㧧㧨㧩㧪㧫㧬㧭㧮㧯㧰㧱㧲㧳㧴㧵㧶㧷㧸㧹㧺㧻㧼㧽㧾㧿㪀㪁㪂㪃㪄㪅㪆㪇㪈㪉㪊㪋㪌㪍㪎㪏㪐㪑㪒㪓㪔㪕㪖㪗㪘㪙㪚㪛㪜㪝㪞㪟㪠㪡㪢㪣㪤㪥㪦㪧㪨㪩㪪㪫㪬㪭㪮㪯㪰㪱㪲㪳㪴㪵㪶㪷㪸㪹㪺㪻㪼㪽㪾㪿㫀㫁㫂㫃㫄㫅㫆㫇㫈㫉㫊㫋㫌㫍㫎㫏㫐㫑㫒㫓㫔㫕㫖㫗㫘㫙㫚㫛㫜㫝㫞㫟㫠㫡㫢㫣㫤㫥㫦㫧㫨㫩㫪㫫㫬㫭㫮㫯㫰㫱㫲㫳㫴㫵㫶㫷㫸㫹㫺㫻㫼㫽㫾㫿㮀㮁㮂㮃㮄㮅㮆㮇㮈㮉㮊㮋㮌㮍㮎㮏㮐㮑㮒㮓㮔㮕㮖㮗㮘㮙㮚㮛㮜㮝㮞㮟㮠㮡㮢㮣㮤㮥㮦㮧㮨㮩㮪㮫㮬㮭㮮㮯㮰㮱㮲㮳㮴㮵㮶㮷㮸㮹㮺㮻㮼㮽㮾㮿㯀㯁㯂㯃㯄㯅㯆㯇㯈㯉㯊㯋㯌㯍㯎㯏㯐㯑㯒㯓㯔㯕㯖㯗㯘㯙㯚㯛㯜㯝㯞㯟㯠㯡㯢㯣㯤㯥㯦㯧㯨㯩㯪㯫㯬㯭㯮㯯㯰㯱㯲㯳㯴㯵㯶㯷㯸㯹㯺㯻㯼㯽㯾㯿㲀㲁㲂㲃㲄㲅㲆㲇㲈㲉㲊㲋㲌㲍㲎㲏㲐㲑㲒㲓㲔㲕㲖㲗㲘㲙㲚㲛㲜㲝㲞㲟㲠㲡㲢㲣㲤㲥㲦㲧㲨㲩㲪㲫㲬㲭㲮㲯㲰㲱㲲㲳㲴㲵㲶㲷㲸㲹㲺㲻㲼㲽㲾㲿㳀㳁㳂㳃㳄㳅㳆㳇㳈㳉㳊㳋㳌㳍㳎㳏㳐㳑㳒㳓㳔㳕㳖㳗㳘㳙㳚㳛㳜㳝㳞㳟㳠㳡㳢㳣㳤㳥㳦㳧㳨㳩㳪㳫㳬㳭㳮㳯㳰㳱㳲㳳㳴㳵㳶㳷㳸㳹㳺㳻㳼㳽㳾㳿㶀㶁㶂㶃㶄㶅㶆㶇㶈㶉㶊㶋㶌㶍㶎㶏㶐㶑㶒㶓㶔㶕㶖㶗㶘㶙㶚㶛㶜㶝㶞㶟㶠㶡㶢㶣㶤㶥㶦㶧㶨㶩㶪㶫㶬㶭㶮㶯㶰㶱㶲㶳㶴㶵㶶㶷㶸㶹㶺㶻㶼㶽㶾㶿㷀㷁㷂㷃㷄㷅㷆㷇㷈㷉㷊㷋㷌㷍㷎㷏㷐㷑㷒㷓㷔㷕㷖㷗㷘㷙㷚㷛㷜㷝㷞㷟㷠㷡㷢㷣㷤㷥㷦㷧㷨㷩㷪㷫㷬㷭㷮㷯㷰㷱㷲㷳㷴㷵㷶㷷㷸㷹㷺㷻㷼㷽㷾㷿㺀㺁㺂㺃㺄㺅㺆㺇㺈㺉㺊㺋㺌㺍㺎㺏㺐㺑㺒㺓㺔㺕㺖㺗㺘㺙㺚㺛㺜㺝㺞㺟㺠㺡㺢㺣㺤㺥㺦㺧㺨㺩㺪㺫㺬㺭㺮㺯㺰㺱㺲㺳㺴㺵㺶㺷㺸㺹㺺㺻㺼㺽㺾㺿㻀㻁㻂㻃㻄㻅㻆㻇㻈㻉㻊㻋㻌㻍㻎㻏㻐㻑㻒㻓㻔㻕㻖㻗㻘㻙㻚㻛㻜㻝㻞㻟㻠㻡㻢㻣㻤㻥㻦㻧㻨㻩㻪㻫㻬㻭㻮㻯㻰㻱㻲㻳㻴㻵㻶㻷㻸㻹㻺㻻㻼㻽㻾㻿㾀㾁㾂㾃㾄㾅㾆㾇㾈㾉㾊㾋㾌㾍㾎㾏㾐㾑㾒㾓㾔㾕㾖㾗㾘㾙㾚㾛㾜㾝㾞㾟㾠㾡㾢㾣㾤㾥㾦㾧㾨㾩㾪㾫㾬㾭㾮㾯㾰㾱㾲㾳㾴㾵㾶㾷㾸㾹㾺㾻㾼㾽㾾㾿㿀㿁㿂㿃㿄㿅㿆㿇㿈㿉㿊㿋㿌㿍㿎㿏㿐㿑㿒㿓㿔㿕㿖㿗㿘㿙㿚㿛㿜㿝㿞㿟㿠㿡㿢㿣㿤㿥㿦㿧㿨㿩㿪㿫㿬㿭㿮㿯㿰㿱㿲㿳㿴㿵㿶㿷㿸㿹㿺㿻㿼㿽㿾㿿䂀䂁䂂䂃䂄䂅䂆䂇䂈䂉䂊䂋䂌䂍䂎䂏䂐䂑䂒䂓䂔䂕䂖䂗䂘䂙䂚䂛䂜䂝䂞䂟䂠䂡䂢䂣䂤䂥䂦䂧䂨䂩䂪䂫䂬䂭䂮䂯䂰䂱䂲䂳䂴䂵䂶䂷䂸䂹䂺䂻䂼䂽䂾䂿䃀䃁䃂䃃䃄䃅䃆䃇䃈䃉䃊䃋䃌䃍䃎䃏䃐䃑䃒䃓䃔䃕䃖䃗䃘䃙䃚䃛䃜䃝䃞䃟䃠䃡䃢䃣䃤䃥䃦䃧䃨䃩䃪䃫䃬䃭䃮䃯䃰䃱䃲䃳䃴䃵䃶䃷䃸䃹䃺䃻䃼䃽䃾䃿"
    \o "䆀䆁䆂䆃䆄䆅䆆䆇䆈䆉䆊䆋䆌䆍䆎䆏䆐䆑䆒䆓䆔䆕䆖䆗䆘䆙䆚䆛䆜䆝䆞䆟䆠䆡䆢䆣䆤䆥䆦䆧䆨䆩䆪䆫䆬䆭䆮䆯䆰䆱䆲䆳䆴䆵䆶䆷䆸䆹䆺䆻䆼䆽䆾䆿䇀䇁䇂䇃䇄䇅䇆䇇䇈䇉䇊䇋䇌䇍䇎䇏䇐䇑䇒䇓䇔䇕䇖䇗䇘䇙䇚䇛䇜䇝䇞䇟䇠䇡䇢䇣䇤䇥䇦䇧䇨䇩䇪䇫䇬䇭䇮䇯䇰䇱䇲䇳䇴䇵䇶䇷䇸䇹䇺䇻䇼䇽䇾䇿䊀䊁䊂䊃䊄䊅䊆䊇䊈䊉䊊䊋䊌䊍䊎䊏䊐䊑䊒䊓䊔䊕䊖䊗䊘䊙䊚䊛䊜䊝䊞䊟䊠䊡䊢䊣䊤䊥䊦䊧䊨䊩䊪䊫䊬䊭䊮䊯䊰䊱䊲䊳䊴䊵䊶䊷䊸䊹䊺䊻䊼䊽䊾䊿䋀䋁䋂䋃䋄䋅䋆䋇䋈䋉䋊䋋䋌䋍䋎䋏䋐䋑䋒䋓䋔䋕䋖䋗䋘䋙䋚䋛䋜䋝䋞䋟䋠䋡䋢䋣䋤䋥䋦䋧䋨䋩䋪䋫䋬䋭䋮䋯䋰䋱䋲䋳䋴䋵䋶䋷䋸䋹䋺䋻䋼䋽䋾䋿䎀䎁䎂䎃䎄䎅䎆䎇䎈䎉䎊䎋䎌䎍䎎䎏䎐䎑䎒䎓䎔䎕䎖䎗䎘䎙䎚䎛䎜䎝䎞䎟䎠䎡䎢䎣䎤䎥䎦䎧䎨䎩䎪䎫䎬䎭䎮䎯䎰䎱䎲䎳䎴䎵䎶䎷䎸䎹䎺䎻䎼䎽䎾䎿䏀䏁䏂䏃䏄䏅䏆䏇䏈䏉䏊䏋䏌䏍䏎䏏䏐䏑䏒䏓䏔䏕䏖䏗䏘䏙䏚䏛䏜䏝䏞䏟䏠䏡䏢䏣䏤䏥䏦䏧䏨䏩䏪䏫䏬䏭䏮䏯䏰䏱䏲䏳䏴䏵䏶䏷䏸䏹䏺䏻䏼䏽䏾䏿䒀䒁䒂䒃䒄䒅䒆䒇䒈䒉䒊䒋䒌䒍䒎䒏䒐䒑䒒䒓䒔䒕䒖䒗䒘䒙䒚䒛䒜䒝䒞䒟䒠䒡䒢䒣䒤䒥䒦䒧䒨䒩䒪䒫䒬䒭䒮䒯䒰䒱䒲䒳䒴䒵䒶䒷䒸䒹䒺䒻䒼䒽䒾䒿䓀䓁䓂䓃䓄䓅䓆䓇䓈䓉䓊䓋䓌䓍䓎䓏䓐䓑䓒䓓䓔䓕䓖䓗䓘䓙䓚䓛䓜䓝䓞䓟䓠䓡䓢䓣䓤䓥䓦䓧䓨䓩䓪䓫䓬䓭䓮䓯䓰䓱䓲䓳䓴䓵䓶䓷䓸䓹䓺䓻䓼䓽䓾䓿䖀䖁䖂䖃䖄䖅䖆䖇䖈䖉䖊䖋䖌䖍䖎䖏䖐䖑䖒䖓䖔䖕䖖䖗䖘䖙䖚䖛䖜䖝䖞䖟䖠䖡䖢䖣䖤䖥䖦䖧䖨䖩䖪䖫䖬䖭䖮䖯䖰䖱䖲䖳䖴䖵䖶䖷䖸䖹䖺䖻䖼䖽䖾䖿䗀䗁䗂䗃䗄䗅䗆䗇䗈䗉䗊䗋䗌䗍䗎䗏䗐䗑䗒䗓䗔䗕䗖䗗䗘䗙䗚䗛䗜䗝䗞䗟䗠䗡䗢䗣䗤䗥䗦䗧䗨䗩䗪䗫䗬䗭䗮䗯䗰䗱䗲䗳䗴䗵䗶䗷䗸䗹䗺䗻䗼䗽䗾䗿䚀䚁䚂䚃䚄䚅䚆䚇䚈䚉䚊䚋䚌䚍䚎䚏䚐䚑䚒䚓䚔䚕䚖䚗䚘䚙䚚䚛䚜䚝䚞䚟䚠䚡䚢䚣䚤䚥䚦䚧䚨䚩䚪䚫䚬䚭䚮䚯䚰䚱䚲䚳䚴䚵䚶䚷䚸䚹䚺䚻䚼䚽䚾䚿䛀䛁䛂䛃䛄䛅䛆䛇䛈䛉䛊䛋䛌䛍䛎䛏䛐䛑䛒䛓䛔䛕䛖䛗䛘䛙䛚䛛䛜䛝䛞䛟䛠䛡䛢䛣䛤䛥䛦䛧䛨䛩䛪䛫䛬䛭䛮䛯䛰䛱䛲䛳䛴䛵䛶䛷䛸䛹䛺䛻䛼䛽䛾䛿䞀䞁䞂䞃䞄䞅䞆䞇䞈䞉䞊䞋䞌䞍䞎䞏䞐䞑䞒䞓䞔䞕䞖䞗䞘䞙䞚䞛䞜䞝䞞䞟䞠䞡䞢䞣䞤䞥䞦䞧䞨䞩䞪䞫䞬䞭䞮䞯䞰䞱䞲䞳䞴䞵䞶䞷䞸䞹䞺䞻䞼䞽䞾䞿䟀䟁䟂䟃䟄䟅䟆䟇䟈䟉䟊䟋䟌䟍䟎䟏䟐䟑䟒䟓䟔䟕䟖䟗䟘䟙䟚䟛䟜䟝䟞䟟䟠䟡䟢䟣䟤䟥䟦䟧䟨䟩䟪䟫䟬䟭䟮䟯䟰䟱䟲䟳䟴䟵䟶䟷䟸䟹䟺䟻䟼䟽䟾䟿䢀䢁䢂䢃䢄䢅䢆䢇䢈䢉䢊䢋䢌䢍䢎䢏䢐䢑䢒䢓䢔䢕䢖䢗䢘䢙䢚䢛䢜䢝䢞䢟䢠䢡䢢䢣䢤䢥䢦䢧䢨䢩䢪䢫䢬䢭䢮䢯䢰䢱䢲䢳䢴䢵䢶䢷䢸䢹䢺䢻䢼䢽䢾䢿䣀䣁䣂䣃䣄䣅䣆䣇䣈䣉䣊䣋䣌䣍䣎䣏䣐䣑䣒䣓䣔䣕䣖䣗䣘䣙䣚䣛䣜䣝䣞䣟䣠䣡䣢䣣䣤䣥䣦䣧䣨䣩䣪䣫䣬䣭䣮䣯䣰䣱䣲䣳䣴䣵䣶䣷䣸䣹䣺䣻䣼䣽䣾䣿䦀䦁䦂䦃䦄䦅䦆䦇䦈䦉䦊䦋䦌䦍䦎䦏䦐䦑䦒䦓䦔䦕䦖䦗䦘䦙䦚䦛䦜䦝䦞䦟䦠䦡䦢䦣䦤䦥䦦䦧䦨䦩䦪䦫䦬䦭䦮䦯䦰䦱䦲䦳䦴䦵䦶䦷䦸䦹䦺䦻䦼䦽䦾䦿䧀䧁䧂䧃䧄䧅䧆䧇䧈䧉䧊䧋䧌䧍䧎䧏䧐䧑䧒䧓䧔䧕䧖䧗䧘䧙䧚䧛䧜䧝䧞䧟䧠䧡䧢䧣䧤䧥䧦䧧䧨䧩䧪䧫䧬䧭䧮䧯䧰䧱䧲䧳䧴䧵䧶䧷䧸䧹䧺䧻䧼䧽䧾䧿䪀䪁䪂䪃䪄䪅䪆䪇䪈䪉䪊䪋䪌䪍䪎䪏䪐䪑䪒䪓䪔䪕䪖䪗䪘䪙䪚䪛䪜䪝䪞䪟䪠䪡䪢䪣䪤䪥䪦䪧䪨䪩䪪䪫䪬䪭䪮䪯䪰䪱䪲䪳䪴䪵䪶䪷䪸䪹䪺䪻䪼䪽䪾䪿䫀䫁䫂䫃䫄䫅䫆䫇䫈䫉䫊䫋䫌䫍䫎䫏䫐䫑䫒䫓䫔䫕䫖䫗䫘䫙䫚䫛䫜䫝䫞䫟䫠䫡䫢䫣䫤䫥䫦䫧䫨䫩䫪䫫䫬䫭䫮䫯䫰䫱䫲䫳䫴䫵䫶䫷䫸䫹䫺䫻䫼䫽䫾䫿䮀䮁䮂䮃䮄䮅䮆䮇䮈䮉䮊䮋䮌䮍䮎䮏䮐䮑䮒䮓䮔䮕䮖䮗䮘䮙䮚䮛䮜䮝䮞䮟䮠䮡䮢䮣䮤䮥䮦䮧䮨䮩䮪䮫䮬䮭䮮䮯䮰䮱䮲䮳䮴䮵䮶䮷䮸䮹䮺䮻䮼䮽䮾䮿䯀䯁䯂䯃䯄䯅䯆䯇䯈䯉䯊䯋䯌䯍䯎䯏䯐䯑䯒䯓䯔䯕䯖䯗䯘䯙䯚䯛䯜䯝䯞䯟䯠䯡䯢䯣䯤䯥䯦䯧䯨䯩䯪䯫䯬䯭䯮䯯䯰䯱䯲䯳䯴䯵䯶䯷䯸䯹䯺䯻䯼䯽䯾䯿䲀䲁䲂䲃䲄䲅䲆䲇䲈䲉䲊䲋䲌䲍䲎䲏䲐䲑䲒䲓䲔䲕䲖䲗䲘䲙䲚䲛䲜䲝䲞䲟䲠䲡䲢䲣䲤䲥䲦䲧䲨䲩䲪䲫䲬䲭䲮䲯䲰䲱䲲䲳䲴䲵䲶䲷䲸䲹䲺䲻䲼䲽䲾䲿䳀䳁䳂䳃䳄䳅䳆䳇䳈䳉䳊䳋䳌䳍䳎䳏䳐䳑䳒䳓䳔䳕䳖䳗䳘䳙䳚䳛䳜䳝䳞䳟䳠䳡䳢䳣䳤䳥䳦䳧䳨䳩䳪䳫䳬䳭䳮䳯䳰䳱䳲䳳䳴䳵䳶䳷䳸䳹䳺䳻䳼䳽䳾䳿䶀䶁䶂䶃䶄䶅䶆䶇䶈䶉䶊䶋䶌䶍䶎䶏䶐䶑䶒䶓䶔䶕䶖䶗䶘䶙䶚䶛䶜䶝䶞䶟䶠䶡䶢䶣䶤䶥䶦䶧䶨䶩䶪䶫䶬䶭䶮䶯䶰䶱䶲䶳䶴䶵䶶䶷䶸䶹䶺䶻䶼䶽䶾䶿䷀䷁䷂䷃䷄䷅䷆䷇䷈䷉䷊䷋䷌䷍䷎䷏䷐䷑䷒䷓䷔䷕䷖䷗䷘䷙䷚䷛䷜䷝䷞䷟䷠䷡䷢䷣䷤䷥䷦䷧䷨䷩䷪䷫䷬䷭䷮䷯䷰䷱䷲䷳䷴䷵䷶䷷䷸䷹䷺䷻䷼䷽䷾䷿亀亁亂亃亄亅了亇予争亊事二亍于亏亐云互亓五井亖亗亘亙亚些亜亝亞亟亠亡亢亣交亥亦产亨亩亪享京亭亮亯亰亱亲亳亴亵亶亷亸亹人亻亼亽亾亿什仁仂仃仄仅仆仇仈仉今介仌仍从仏仐仑仒仓仔仕他仗付仙仚仛仜仝仞仟仠仡仢代令以仦仧仨仩仪仫们仭仮仯仰仱仲仳仴仵件价仸仹仺任仼份仾仿侀侁侂侃侄侅來侇侈侉侊例侌侍侎侏侐侑侒侓侔侕侖侗侘侙侚供侜依侞侟侠価侢侣侤侥侦侧侨侩侪侫侬侭侮侯侰侱侲侳侴侵侶侷侸侹侺侻侼侽侾便俀俁係促俄俅俆俇俈俉俊俋俌俍俎俏俐俑俒俓俔俕俖俗俘俙俚俛俜保俞俟俠信俢俣俤俥俦俧俨俩俪俫俬俭修俯俰俱俲俳俴俵俶俷俸俹俺俻俼俽俾俿傀傁傂傃傄傅傆傇傈傉傊傋傌傍傎傏傐傑傒傓傔傕傖傗傘備傚傛傜傝傞傟傠傡傢傣傤傥傦傧储傩傪傫催傭傮傯傰傱傲傳傴債傶傷傸傹傺傻傼傽傾傿僀僁僂僃僄僅僆僇僈僉僊僋僌働僎像僐僑僒僓僔僕僖僗僘僙僚僛僜僝僞僟僠僡僢僣僤僥僦僧僨僩僪僫僬僭僮僯僰僱僲僳僴僵僶僷僸價僺僻僼僽僾僿"
    \o "冀冁冂冃冄内円冇冈冉冊冋册再冎冏冐冑冒冓冔冕冖冗冘写冚军农冝冞冟冠冡冢冣冤冥冦冧冨冩冪冫冬冭冮冯冰冱冲决冴况冶冷冸冹冺冻冼冽冾冿净凁凂凃凄凅准凇凈凉凊凋凌凍凎减凐凑凒凓凔凕凖凗凘凙凚凛凜凝凞凟几凡凢凣凤凥処凧凨凩凪凫凬凭凮凯凰凱凲凳凴凵凶凷凸凹出击凼函凾凿劀劁劂劃劄劅劆劇劈劉劊劋劌劍劎劏劐劑劒劓劔劕劖劗劘劙劚力劜劝办功加务劢劣劤劥劦劧动助努劫劬劭劮劯劰励劲劳労劵劶劷劸効劺劻劼劽劾势勀勁勂勃勄勅勆勇勈勉勊勋勌勍勎勏勐勑勒勓勔動勖勗勘務勚勛勜勝勞募勠勡勢勣勤勥勦勧勨勩勪勫勬勭勮勯勰勱勲勳勴勵勶勷勸勹勺勻勼勽勾勿厀厁厂厃厄厅历厇厈厉厊压厌厍厎厏厐厑厒厓厔厕厖厗厘厙厚厛厜厝厞原厠厡厢厣厤厥厦厧厨厩厪厫厬厭厮厯厰厱厲厳厴厵厶厷厸厹厺去厼厽厾县叀叁参參叄叅叆叇又叉及友双反収叏叐发叒叓叔叕取受变叙叚叛叜叝叞叟叠叡叢口古句另叧叨叩只叫召叭叮可台叱史右叴叵叶号司叹叺叻叼叽叾叿咀咁咂咃咄咅咆咇咈咉咊咋和咍咎咏咐咑咒咓咔咕咖咗咘咙咚咛咜咝咞咟咠咡咢咣咤咥咦咧咨咩咪咫咬咭咮咯咰咱咲咳咴咵咶咷咸咹咺咻咼咽咾咿哀品哂哃哄哅哆哇哈哉哊哋哌响哎哏哐哑哒哓哔哕哖哗哘哙哚哛哜哝哞哟哠員哢哣哤哥哦哧哨哩哪哫哬哭哮哯哰哱哲哳哴哵哶哷哸哹哺哻哼哽哾哿喀喁喂喃善喅喆喇喈喉喊喋喌喍喎喏喐喑喒喓喔喕喖喗喘喙喚喛喜喝喞喟喠喡喢喣喤喥喦喧喨喩喪喫喬喭單喯喰喱喲喳喴喵営喷喸喹喺喻喼喽喾喿嗀嗁嗂嗃嗄嗅嗆嗇嗈嗉嗊嗋嗌嗍嗎嗏嗐嗑嗒嗓嗔嗕嗖嗗嗘嗙嗚嗛嗜嗝嗞嗟嗠嗡嗢嗣嗤嗥嗦嗧嗨嗩嗪嗫嗬嗭嗮嗯嗰嗱嗲嗳嗴嗵嗶嗷嗸嗹嗺嗻嗼嗽嗾嗿嚀嚁嚂嚃嚄嚅嚆嚇嚈嚉嚊嚋嚌嚍嚎嚏嚐嚑嚒嚓嚔嚕嚖嚗嚘嚙嚚嚛嚜嚝嚞嚟嚠嚡嚢嚣嚤嚥嚦嚧嚨嚩嚪嚫嚬嚭嚮嚯嚰嚱嚲嚳嚴嚵嚶嚷嚸嚹嚺嚻嚼嚽嚾嚿囀囁囂囃囄囅囆囇囈囉囊囋囌囍囎囏囐囑囒囓囔囕囖囗囘囙囚四囜囝回囟因囡团団囤囥囦囧囨囩囪囫囬园囮囯困囱囲図围囵囶囷囸囹固囻囼国图囿垀垁垂垃垄垅垆垇垈垉垊型垌垍垎垏垐垑垒垓垔垕垖垗垘垙垚垛垜垝垞垟垠垡垢垣垤垥垦垧垨垩垪垫垬垭垮垯垰垱垲垳垴垵垶垷垸垹垺垻垼垽垾垿埀埁埂埃埄埅埆埇埈埉埊埋埌埍城埏埐埑埒埓埔埕埖埗埘埙埚埛埜埝埞域埠埡埢埣埤埥埦埧埨埩埪埫埬埭埮埯埰埱埲埳埴埵埶執埸培基埻埼埽埾埿墀墁墂境墄墅墆墇墈墉墊墋墌墍墎墏墐墑墒墓墔墕墖増墘墙墚墛墜墝增墟墠墡墢墣墤墥墦墧墨墩墪墫墬墭墮墯墰墱墲墳墴墵墶墷墸墹墺墻墼墽墾墿壀壁壂壃壄壅壆壇壈壉壊壋壌壍壎壏壐壑壒壓壔壕壖壗壘壙壚壛壜壝壞壟壠壡壢壣壤壥壦壧壨壩壪士壬壭壮壯声壱売壳壴壵壶壷壸壹壺壻壼壽壾壿妀妁如妃妄妅妆妇妈妉妊妋妌妍妎妏妐妑妒妓妔妕妖妗妘妙妚妛妜妝妞妟妠妡妢妣妤妥妦妧妨妩妪妫妬妭妮妯妰妱妲妳妴妵妶妷妸妹妺妻妼妽妾妿姀姁姂姃姄姅姆姇姈姉姊始姌姍姎姏姐姑姒姓委姕姖姗姘姙姚姛姜姝姞姟姠姡姢姣姤姥姦姧姨姩姪姫姬姭姮姯姰姱姲姳姴姵姶姷姸姹姺姻姼姽姾姿媀媁媂媃媄媅媆媇媈媉媊媋媌媍媎媏媐媑媒媓媔媕媖媗媘媙媚媛媜媝媞媟媠媡媢媣媤媥媦媧媨媩媪媫媬媭媮媯媰媱媲媳媴媵媶媷媸媹媺媻媼媽媾媿嫀嫁嫂嫃嫄嫅嫆嫇嫈嫉嫊嫋嫌嫍嫎嫏嫐嫑嫒嫓嫔嫕嫖嫗嫘嫙嫚嫛嫜嫝嫞嫟嫠嫡嫢嫣嫤嫥嫦嫧嫨嫩嫪嫫嫬嫭嫮嫯嫰嫱嫲嫳嫴嫵嫶嫷嫸嫹嫺嫻嫼嫽嫾嫿宀宁宂它宄宅宆宇守安宊宋完宍宎宏宐宑宒宓宔宕宖宗官宙定宛宜宝实実宠审客宣室宥宦宧宨宩宪宫宬宭宮宯宰宱宲害宴宵家宷宸容宺宻宼宽宾宿寀寁寂寃寄寅密寇寈寉寊寋富寍寎寏寐寑寒寓寔寕寖寗寘寙寚寛寜寝寞察寠寡寢寣寤寥實寧寨審寪寫寬寭寮寯寰寱寲寳寴寵寶寷寸对寺寻导寽対寿岀岁岂岃岄岅岆岇岈岉岊岋岌岍岎岏岐岑岒岓岔岕岖岗岘岙岚岛岜岝岞岟岠岡岢岣岤岥岦岧岨岩岪岫岬岭岮岯岰岱岲岳岴岵岶岷岸岹岺岻岼岽岾岿峀峁峂峃峄峅峆峇峈峉峊峋峌峍峎峏峐峑峒峓峔峕峖峗峘峙峚峛峜峝峞峟峠峡峢峣峤峥峦峧峨峩峪峫峬峭峮峯峰峱峲峳峴峵島峷峸峹峺峻峼峽峾峿嶀嶁嶂嶃嶄嶅嶆嶇嶈嶉嶊嶋嶌嶍嶎嶏嶐嶑嶒嶓嶔嶕嶖嶗嶘嶙嶚嶛嶜嶝嶞嶟嶠嶡嶢嶣嶤嶥嶦嶧嶨嶩嶪嶫嶬嶭嶮嶯嶰嶱嶲嶳嶴嶵嶶嶷嶸嶹嶺嶻嶼嶽嶾嶿巀巁巂巃巄巅巆巇巈巉巊巋巌巍巎巏巐巑巒巓巔巕巖巗巘巙巚巛巜川州巟巠巡巢巣巤工左巧巨巩巪巫巬巭差巯巰己已巳巴巵巶巷巸巹巺巻巼巽巾巿庀庁庂広庄庅庆庇庈庉床庋庌庍庎序庐庑庒库应底庖店庘庙庚庛府庝庞废庠庡庢庣庤庥度座庨庩庪庫庬庭庮庯庰庱庲庳庴庵庶康庸庹庺庻庼庽庾庿廀廁廂廃廄廅廆廇廈廉廊廋廌廍廎廏廐廑廒廓廔廕廖廗廘廙廚廛廜廝廞廟廠廡廢廣廤廥廦廧廨廩廪廫廬廭廮廯廰廱廲廳廴廵延廷廸廹建廻廼廽廾廿往征徂徃径待徆徇很徉徊律後徍徎徏徐徑徒従徔徕徖得徘徙徚徛徜徝從徟徠御徢徣徤徥徦徧徨復循徫徬徭微徯徰徱徲徳徴徵徶德徸徹徺徻徼徽徾徿忀忁忂心忄必忆忇忈忉忊忋忌忍忎忏忐忑忒忓忔忕忖志忘忙忚忛応忝忞忟忠忡忢忣忤忥忦忧忨忩忪快忬忭忮忯忰忱忲忳忴念忶忷忸忹忺忻忼忽忾忿悀悁悂悃悄悅悆悇悈悉悊悋悌悍悎悏悐悑悒悓悔悕悖悗悘悙悚悛悜悝悞悟悠悡悢患悤悥悦悧您悩悪悫悬悭悮悯悰悱悲悳悴悵悶悷悸悹悺悻悼悽悾悿惀惁惂惃惄情惆惇惈惉惊惋惌惍惎惏惐惑惒惓惔惕惖惗惘惙惚惛惜惝惞惟惠惡惢惣惤惥惦惧惨惩惪惫惬惭惮惯惰惱惲想惴惵惶惷惸惹惺惻惼惽惾惿"
    \o "憀憁憂憃憄憅憆憇憈憉憊憋憌憍憎憏憐憑憒憓憔憕憖憗憘憙憚憛憜憝憞憟憠憡憢憣憤憥憦憧憨憩憪憫憬憭憮憯憰憱憲憳憴憵憶憷憸憹憺憻憼憽憾憿懀懁懂懃懄懅懆懇懈應懊懋懌懍懎懏懐懑懒懓懔懕懖懗懘懙懚懛懜懝懞懟懠懡懢懣懤懥懦懧懨懩懪懫懬懭懮懯懰懱懲懳懴懵懶懷懸懹懺懻懼懽懾懿技抁抂抃抄抅抆抇抈抉把抋抌抍抎抏抐抑抒抓抔投抖抗折抙抚抛抜抝択抟抠抡抢抣护报抦抧抨抩抪披抬抭抮抯抰抱抲抳抴抵抶抷抸抹抺抻押抽抾抿拀拁拂拃拄担拆拇拈拉拊拋拌拍拎拏拐拑拒拓拔拕拖拗拘拙拚招拜拝拞拟拠拡拢拣拤拥拦拧拨择拪拫括拭拮拯拰拱拲拳拴拵拶拷拸拹拺拻拼拽拾拿掀掁掂掃掄掅掆掇授掉掊掋掌掍掎掏掐掑排掓掔掕掖掗掘掙掚掛掜掝掞掟掠採探掣掤接掦控推掩措掫掬掭掮掯掰掱掲掳掴掵掶掷掸掹掺掻掼掽掾掿揀揁揂揃揄揅揆揇揈揉揊揋揌揍揎描提揑插揓揔揕揖揗揘揙揚換揜揝揞揟揠握揢揣揤揥揦揧揨揩揪揫揬揭揮揯揰揱揲揳援揵揶揷揸揹揺揻揼揽揾揿撀撁撂撃撄撅撆撇撈撉撊撋撌撍撎撏撐撑撒撓撔撕撖撗撘撙撚撛撜撝撞撟撠撡撢撣撤撥撦撧撨撩撪撫撬播撮撯撰撱撲撳撴撵撶撷撸撹撺撻撼撽撾撿擀擁擂擃擄擅擆擇擈擉擊擋擌操擎擏擐擑擒擓擔擕擖擗擘擙據擛擜擝擞擟擠擡擢擣擤擥擦擧擨擩擪擫擬擭擮擯擰擱擲擳擴擵擶擷擸擹擺擻擼擽擾擿斀斁斂斃斄斅斆文斈斉斊斋斌斍斎斏斐斑斒斓斔斕斖斗斘料斚斛斜斝斞斟斠斡斢斣斤斥斦斧斨斩斪斫斬断斮斯新斱斲斳斴斵斶斷斸方斺斻於施斾斿旀旁旂旃旄旅旆旇旈旉旊旋旌旍旎族旐旑旒旓旔旕旖旗旘旙旚旛旜旝旞旟无旡既旣旤日旦旧旨早旪旫旬旭旮旯旰旱旲旳旴旵时旷旸旹旺旻旼旽旾旿暀暁暂暃暄暅暆暇暈暉暊暋暌暍暎暏暐暑暒暓暔暕暖暗暘暙暚暛暜暝暞暟暠暡暢暣暤暥暦暧暨暩暪暫暬暭暮暯暰暱暲暳暴暵暶暷暸暹暺暻暼暽暾暿曀曁曂曃曄曅曆曇曈曉曊曋曌曍曎曏曐曑曒曓曔曕曖曗曘曙曚曛曜曝曞曟曠曡曢曣曤曥曦曧曨曩曪曫曬曭曮曯曰曱曲曳更曵曶曷書曹曺曻曼曽曾替枀极枂枃构枅枆枇枈枉枊枋枌枍枎枏析枑枒枓枔枕枖林枘枙枚枛果枝枞枟枠枡枢枣枤枥枦枧枨枩枪枫枬枭枮枯枰枱枲枳枴枵架枷枸枹枺枻枼枽枾枿柀柁柂柃柄柅柆柇柈柉柊柋柌柍柎柏某柑柒染柔柕柖柗柘柙柚柛柜柝柞柟柠柡柢柣柤查柦柧柨柩柪柫柬柭柮柯柰柱柲柳柴柵柶柷柸柹柺査柼柽柾柿梀梁梂梃梄梅梆梇梈梉梊梋梌梍梎梏梐梑梒梓梔梕梖梗梘梙梚梛梜條梞梟梠梡梢梣梤梥梦梧梨梩梪梫梬梭梮梯械梱梲梳梴梵梶梷梸梹梺梻梼梽梾梿检棁棂棃棄棅棆棇棈棉棊棋棌棍棎棏棐棑棒棓棔棕棖棗棘棙棚棛棜棝棞棟棠棡棢棣棤棥棦棧棨棩棪棫棬棭森棯棰棱棲棳棴棵棶棷棸棹棺棻棼棽棾棿榀榁概榃榄榅榆榇榈榉榊榋榌榍榎榏榐榑榒榓榔榕榖榗榘榙榚榛榜榝榞榟榠榡榢榣榤榥榦榧榨榩榪榫榬榭榮榯榰榱榲榳榴榵榶榷榸榹榺榻榼榽榾榿槀槁槂槃槄槅槆槇槈槉槊構槌槍槎槏槐槑槒槓槔槕槖槗様槙槚槛槜槝槞槟槠槡槢槣槤槥槦槧槨槩槪槫槬槭槮槯槰槱槲槳槴槵槶槷槸槹槺槻槼槽槾槿檀檁檂檃檄檅檆檇檈檉檊檋檌檍檎檏檐檑檒檓檔檕檖檗檘檙檚檛檜檝檞檟檠檡檢檣檤檥檦檧檨檩檪檫檬檭檮檯檰檱檲檳檴檵檶檷檸檹檺檻檼檽檾檿櫀櫁櫂櫃櫄櫅櫆櫇櫈櫉櫊櫋櫌櫍櫎櫏櫐櫑櫒櫓櫔櫕櫖櫗櫘櫙櫚櫛櫜櫝櫞櫟櫠櫡櫢櫣櫤櫥櫦櫧櫨櫩櫪櫫櫬櫭櫮櫯櫰櫱櫲櫳櫴櫵櫶櫷櫸櫹櫺櫻櫼櫽櫾櫿殀殁殂殃殄殅殆殇殈殉殊残殌殍殎殏殐殑殒殓殔殕殖殗殘殙殚殛殜殝殞殟殠殡殢殣殤殥殦殧殨殩殪殫殬殭殮殯殰殱殲殳殴段殶殷殸殹殺殻殼殽殾殿毀毁毂毃毄毅毆毇毈毉毊毋毌母毎每毐毑毒毓比毕毖毗毘毙毚毛毜毝毞毟毠毡毢毣毤毥毦毧毨毩毪毫毬毭毮毯毰毱毲毳毴毵毶毷毸毹毺毻毼毽毾毿沀沁沂沃沄沅沆沇沈沉沊沋沌沍沎沏沐沑沒沓沔沕沖沗沘沙沚沛沜沝沞沟沠没沢沣沤沥沦沧沨沩沪沫沬沭沮沯沰沱沲河沴沵沶沷沸油沺治沼沽沾沿泀況泂泃泄泅泆泇泈泉泊泋泌泍泎泏泐泑泒泓泔法泖泗泘泙泚泛泜泝泞泟泠泡波泣泤泥泦泧注泩泪泫泬泭泮泯泰泱泲泳泴泵泶泷泸泹泺泻泼泽泾泿涀涁涂涃涄涅涆涇消涉涊涋涌涍涎涏涐涑涒涓涔涕涖涗涘涙涚涛涜涝涞涟涠涡涢涣涤涥润涧涨涩涪涫涬涭涮涯涰涱液涳涴涵涶涷涸涹涺涻涼涽涾涿淀淁淂淃淄淅淆淇淈淉淊淋淌淍淎淏淐淑淒淓淔淕淖淗淘淙淚淛淜淝淞淟淠淡淢淣淤淥淦淧淨淩淪淫淬淭淮淯淰深淲淳淴淵淶混淸淹淺添淼淽淾淿満溁溂溃溄溅溆溇溈溉溊溋溌溍溎溏源溑溒溓溔溕準溗溘溙溚溛溜溝溞溟溠溡溢溣溤溥溦溧溨溩溪溫溬溭溮溯溰溱溲溳溴溵溶溷溸溹溺溻溼溽溾溿滀滁滂滃滄滅滆滇滈滉滊滋滌滍滎滏滐滑滒滓滔滕滖滗滘滙滚滛滜滝滞滟滠满滢滣滤滥滦滧滨滩滪滫滬滭滮滯滰滱滲滳滴滵滶滷滸滹滺滻滼滽滾滿澀澁澂澃澄澅澆澇澈澉澊澋澌澍澎澏澐澑澒澓澔澕澖澗澘澙澚澛澜澝澞澟澠澡澢澣澤澥澦澧澨澩澪澫澬澭澮澯澰澱澲澳澴澵澶澷澸澹澺澻澼澽澾澿激濁濂濃濄濅濆濇濈濉濊濋濌濍濎濏濐濑濒濓濔濕濖濗濘濙濚濛濜濝濞濟濠濡濢濣濤濥濦濧濨濩濪濫濬濭濮濯濰濱濲濳濴濵濶濷濸濹濺濻濼濽濾濿炀炁炂炃炄炅炆炇炈炉炊炋炌炍炎炏炐炑炒炓炔炕炖炗炘炙炚炛炜炝炞炟炠炡炢炣炤炥炦炧炨炩炪炫炬炭炮炯炰炱炲炳炴炵炶炷炸点為炻炼炽炾炿烀烁烂烃烄烅烆烇烈烉烊烋烌烍烎烏烐烑烒烓烔烕烖烗烘烙烚烛烜烝烞烟烠烡烢烣烤烥烦烧烨烩烪烫烬热烮烯烰烱烲烳烴烵烶烷烸烹烺烻烼烽烾烿"
    \o "熀熁熂熃熄熅熆熇熈熉熊熋熌熍熎熏熐熑熒熓熔熕熖熗熘熙熚熛熜熝熞熟熠熡熢熣熤熥熦熧熨熩熪熫熬熭熮熯熰熱熲熳熴熵熶熷熸熹熺熻熼熽熾熿燀燁燂燃燄燅燆燇燈燉燊燋燌燍燎燏燐燑燒燓燔燕燖燗燘燙燚燛燜燝燞營燠燡燢燣燤燥燦燧燨燩燪燫燬燭燮燯燰燱燲燳燴燵燶燷燸燹燺燻燼燽燾燿犀犁犂犃犄犅犆犇犈犉犊犋犌犍犎犏犐犑犒犓犔犕犖犗犘犙犚犛犜犝犞犟犠犡犢犣犤犥犦犧犨犩犪犫犬犭犮犯犰犱犲犳犴犵状犷犸犹犺犻犼犽犾犿狀狁狂狃狄狅狆狇狈狉狊狋狌狍狎狏狐狑狒狓狔狕狖狗狘狙狚狛狜狝狞狟狠狡狢狣狤狥狦狧狨狩狪狫独狭狮狯狰狱狲狳狴狵狶狷狸狹狺狻狼狽狾狿玀玁玂玃玄玅玆率玈玉玊王玌玍玎玏玐玑玒玓玔玕玖玗玘玙玚玛玜玝玞玟玠玡玢玣玤玥玦玧玨玩玪玫玬玭玮环现玱玲玳玴玵玶玷玸玹玺玻玼玽玾玿珀珁珂珃珄珅珆珇珈珉珊珋珌珍珎珏珐珑珒珓珔珕珖珗珘珙珚珛珜珝珞珟珠珡珢珣珤珥珦珧珨珩珪珫珬班珮珯珰珱珲珳珴珵珶珷珸珹珺珻珼珽現珿璀璁璂璃璄璅璆璇璈璉璊璋璌璍璎璏璐璑璒璓璔璕璖璗璘璙璚璛璜璝璞璟璠璡璢璣璤璥璦璧璨璩璪璫璬璭璮璯環璱璲璳璴璵璶璷璸璹璺璻璼璽璾璿瓀瓁瓂瓃瓄瓅瓆瓇瓈瓉瓊瓋瓌瓍瓎瓏瓐瓑瓒瓓瓔瓕瓖瓗瓘瓙瓚瓛瓜瓝瓞瓟瓠瓡瓢瓣瓤瓥瓦瓧瓨瓩瓪瓫瓬瓭瓮瓯瓰瓱瓲瓳瓴瓵瓶瓷瓸瓹瓺瓻瓼瓽瓾瓿疀疁疂疃疄疅疆疇疈疉疊疋疌疍疎疏疐疑疒疓疔疕疖疗疘疙疚疛疜疝疞疟疠疡疢疣疤疥疦疧疨疩疪疫疬疭疮疯疰疱疲疳疴疵疶疷疸疹疺疻疼疽疾疿痀痁痂痃痄病痆症痈痉痊痋痌痍痎痏痐痑痒痓痔痕痖痗痘痙痚痛痜痝痞痟痠痡痢痣痤痥痦痧痨痩痪痫痬痭痮痯痰痱痲痳痴痵痶痷痸痹痺痻痼痽痾痿皀皁皂皃的皅皆皇皈皉皊皋皌皍皎皏皐皑皒皓皔皕皖皗皘皙皚皛皜皝皞皟皠皡皢皣皤皥皦皧皨皩皪皫皬皭皮皯皰皱皲皳皴皵皶皷皸皹皺皻皼皽皾皿盀盁盂盃盄盅盆盇盈盉益盋盌盍盎盏盐监盒盓盔盕盖盗盘盙盚盛盜盝盞盟盠盡盢監盤盥盦盧盨盩盪盫盬盭目盯盰盱盲盳直盵盶盷相盹盺盻盼盽盾盿瞀瞁瞂瞃瞄瞅瞆瞇瞈瞉瞊瞋瞌瞍瞎瞏瞐瞑瞒瞓瞔瞕瞖瞗瞘瞙瞚瞛瞜瞝瞞瞟瞠瞡瞢瞣瞤瞥瞦瞧瞨瞩瞪瞫瞬瞭瞮瞯瞰瞱瞲瞳瞴瞵瞶瞷瞸瞹瞺瞻瞼瞽瞾瞿矀矁矂矃矄矅矆矇矈矉矊矋矌矍矎矏矐矑矒矓矔矕矖矗矘矙矚矛矜矝矞矟矠矡矢矣矤知矦矧矨矩矪矫矬短矮矯矰矱矲石矴矵矶矷矸矹矺矻矼矽矾矿碀碁碂碃碄碅碆碇碈碉碊碋碌碍碎碏碐碑碒碓碔碕碖碗碘碙碚碛碜碝碞碟碠碡碢碣碤碥碦碧碨碩碪碫碬碭碮碯碰碱碲碳碴碵碶碷碸碹確碻碼碽碾碿磀磁磂磃磄磅磆磇磈磉磊磋磌磍磎磏磐磑磒磓磔磕磖磗磘磙磚磛磜磝磞磟磠磡磢磣磤磥磦磧磨磩磪磫磬磭磮磯磰磱磲磳磴磵磶磷磸磹磺磻磼磽磾磿禀禁禂禃禄禅禆禇禈禉禊禋禌禍禎福禐禑禒禓禔禕禖禗禘禙禚禛禜禝禞禟禠禡禢禣禤禥禦禧禨禩禪禫禬禭禮禯禰禱禲禳禴禵禶禷禸禹禺离禼禽禾禿秀私秂秃秄秅秆秇秈秉秊秋秌种秎秏秐科秒秓秔秕秖秗秘秙秚秛秜秝秞租秠秡秢秣秤秥秦秧秨秩秪秫秬秭秮积称秱秲秳秴秵秶秷秸秹秺移秼秽秾秿窀突窂窃窄窅窆窇窈窉窊窋窌窍窎窏窐窑窒窓窔窕窖窗窘窙窚窛窜窝窞窟窠窡窢窣窤窥窦窧窨窩窪窫窬窭窮窯窰窱窲窳窴窵窶窷窸窹窺窻窼窽窾窿竀竁竂竃竄竅竆竇竈竉竊立竌竍竎竏竐竑竒竓竔竕竖竗竘站竚竛竜竝竞竟章竡竢竣竤童竦竧竨竩竪竫竬竭竮端竰竱竲竳竴竵競竷竸竹竺竻竼竽竾竿简箁箂箃箄箅箆箇箈箉箊箋箌箍箎箏箐箑箒箓箔箕箖算箘箙箚箛箜箝箞箟箠管箢箣箤箥箦箧箨箩箪箫箬箭箮箯箰箱箲箳箴箵箶箷箸箹箺箻箼箽箾箿節篁篂篃範篅篆篇篈築篊篋篌篍篎篏篐篑篒篓篔篕篖篗篘篙篚篛篜篝篞篟篠篡篢篣篤篥篦篧篨篩篪篫篬篭篮篯篰篱篲篳篴篵篶篷篸篹篺篻篼篽篾篿粀粁粂粃粄粅粆粇粈粉粊粋粌粍粎粏粐粑粒粓粔粕粖粗粘粙粚粛粜粝粞粟粠粡粢粣粤粥粦粧粨粩粪粫粬粭粮粯粰粱粲粳粴粵粶粷粸粹粺粻粼粽精粿糀糁糂糃糄糅糆糇糈糉糊糋糌糍糎糏糐糑糒糓糔糕糖糗糘糙糚糛糜糝糞糟糠糡糢糣糤糥糦糧糨糩糪糫糬糭糮糯糰糱糲糳糴糵糶糷糸糹糺系糼糽糾糿綀綁綂綃綄綅綆綇綈綉綊綋綌綍綎綏綐綑綒經綔綕綖綗綘継続綛綜綝綞綟綠綡綢綣綤綥綦綧綨綩綪綫綬維綮綯綰綱網綳綴綵綶綷綸綹綺綻綼綽綾綿緀緁緂緃緄緅緆緇緈緉緊緋緌緍緎総緐緑緒緓緔緕緖緗緘緙線緛緜緝緞緟締緡緢緣緤緥緦緧編緩緪緫緬緭緮緯緰緱緲緳練緵緶緷緸緹緺緻緼緽緾緿纀纁纂纃纄纅纆纇纈纉纊纋續纍纎纏纐纑纒纓纔纕纖纗纘纙纚纛纜纝纞纟纠纡红纣纤纥约级纨纩纪纫纬纭纮纯纰纱纲纳纴纵纶纷纸纹纺纻纼纽纾线绀绁绂练组绅细织终绉绊绋绌绍绎经绐绑绒结绔绕绖绗绘给绚绛络绝绞统绠绡绢绣绤绥绦继绨绩绪绫绬续绮绯绰绱绲绳维绵绶绷绸绹绺绻综绽绾绿羀羁羂羃羄羅羆羇羈羉羊羋羌羍美羏羐羑羒羓羔羕羖羗羘羙羚羛羜羝羞羟羠羡羢羣群羥羦羧羨義羪羫羬羭羮羯羰羱羲羳羴羵羶羷羸羹羺羻羼羽羾羿翀翁翂翃翄翅翆翇翈翉翊翋翌翍翎翏翐翑習翓翔翕翖翗翘翙翚翛翜翝翞翟翠翡翢翣翤翥翦翧翨翩翪翫翬翭翮翯翰翱翲翳翴翵翶翷翸翹翺翻翼翽翾翿肀肁肂肃肄肅肆肇肈肉肊肋肌肍肎肏肐肑肒肓肔肕肖肗肘肙肚肛肜肝肞肟肠股肢肣肤肥肦肧肨肩肪肫肬肭肮肯肰肱育肳肴肵肶肷肸肹肺肻肼肽肾肿胀胁胂胃胄胅胆胇胈胉胊胋背胍胎胏胐胑胒胓胔胕胖胗胘胙胚胛胜胝胞胟胠胡胢胣胤胥胦胧胨胩胪胫胬胭胮胯胰胱胲胳胴胵胶胷胸胹胺胻胼能胾胿"
    \o "膀膁膂膃膄膅膆膇膈膉膊膋膌膍膎膏膐膑膒膓膔膕膖膗膘膙膚膛膜膝膞膟膠膡膢膣膤膥膦膧膨膩膪膫膬膭膮膯膰膱膲膳膴膵膶膷膸膹膺膻膼膽膾膿臀臁臂臃臄臅臆臇臈臉臊臋臌臍臎臏臐臑臒臓臔臕臖臗臘臙臚臛臜臝臞臟臠臡臢臣臤臥臦臧臨臩自臫臬臭臮臯臰臱臲至致臵臶臷臸臹臺臻臼臽臾臿芀芁节芃芄芅芆芇芈芉芊芋芌芍芎芏芐芑芒芓芔芕芖芗芘芙芚芛芜芝芞芟芠芡芢芣芤芥芦芧芨芩芪芫芬芭芮芯芰花芲芳芴芵芶芷芸芹芺芻芼芽芾芿苀苁苂苃苄苅苆苇苈苉苊苋苌苍苎苏苐苑苒苓苔苕苖苗苘苙苚苛苜苝苞苟苠苡苢苣苤若苦苧苨苩苪苫苬苭苮苯苰英苲苳苴苵苶苷苸苹苺苻苼苽苾苿莀莁莂莃莄莅莆莇莈莉莊莋莌莍莎莏莐莑莒莓莔莕莖莗莘莙莚莛莜莝莞莟莠莡莢莣莤莥莦莧莨莩莪莫莬莭莮莯莰莱莲莳莴莵莶获莸莹莺莻莼莽莾莿菀菁菂菃菄菅菆菇菈菉菊菋菌菍菎菏菐菑菒菓菔菕菖菗菘菙菚菛菜菝菞菟菠菡菢菣菤菥菦菧菨菩菪菫菬菭菮華菰菱菲菳菴菵菶菷菸菹菺菻菼菽菾菿蒀蒁蒂蒃蒄蒅蒆蒇蒈蒉蒊蒋蒌蒍蒎蒏蒐蒑蒒蒓蒔蒕蒖蒗蒘蒙蒚蒛蒜蒝蒞蒟蒠蒡蒢蒣蒤蒥蒦蒧蒨蒩蒪蒫蒬蒭蒮蒯蒰蒱蒲蒳蒴蒵蒶蒷蒸蒹蒺蒻蒼蒽蒾蒿蓀蓁蓂蓃蓄蓅蓆蓇蓈蓉蓊蓋蓌蓍蓎蓏蓐蓑蓒蓓蓔蓕蓖蓗蓘蓙蓚蓛蓜蓝蓞蓟蓠蓡蓢蓣蓤蓥蓦蓧蓨蓩蓪蓫蓬蓭蓮蓯蓰蓱蓲蓳蓴蓵蓶蓷蓸蓹蓺蓻蓼蓽蓾蓿薀薁薂薃薄薅薆薇薈薉薊薋薌薍薎薏薐薑薒薓薔薕薖薗薘薙薚薛薜薝薞薟薠薡薢薣薤薥薦薧薨薩薪薫薬薭薮薯薰薱薲薳薴薵薶薷薸薹薺薻薼薽薾薿藀藁藂藃藄藅藆藇藈藉藊藋藌藍藎藏藐藑藒藓藔藕藖藗藘藙藚藛藜藝藞藟藠藡藢藣藤藥藦藧藨藩藪藫藬藭藮藯藰藱藲藳藴藵藶藷藸藹藺藻藼藽藾藿蚀蚁蚂蚃蚄蚅蚆蚇蚈蚉蚊蚋蚌蚍蚎蚏蚐蚑蚒蚓蚔蚕蚖蚗蚘蚙蚚蚛蚜蚝蚞蚟蚠蚡蚢蚣蚤蚥蚦蚧蚨蚩蚪蚫蚬蚭蚮蚯蚰蚱蚲蚳蚴蚵蚶蚷蚸蚹蚺蚻蚼蚽蚾蚿蛀蛁蛂蛃蛄蛅蛆蛇蛈蛉蛊蛋蛌蛍蛎蛏蛐蛑蛒蛓蛔蛕蛖蛗蛘蛙蛚蛛蛜蛝蛞蛟蛠蛡蛢蛣蛤蛥蛦蛧蛨蛩蛪蛫蛬蛭蛮蛯蛰蛱蛲蛳蛴蛵蛶蛷蛸蛹蛺蛻蛼蛽蛾蛿螀螁螂螃螄螅螆螇螈螉螊螋螌融螎螏螐螑螒螓螔螕螖螗螘螙螚螛螜螝螞螟螠螡螢螣螤螥螦螧螨螩螪螫螬螭螮螯螰螱螲螳螴螵螶螷螸螹螺螻螼螽螾螿蟀蟁蟂蟃蟄蟅蟆蟇蟈蟉蟊蟋蟌蟍蟎蟏蟐蟑蟒蟓蟔蟕蟖蟗蟘蟙蟚蟛蟜蟝蟞蟟蟠蟡蟢蟣蟤蟥蟦蟧蟨蟩蟪蟫蟬蟭蟮蟯蟰蟱蟲蟳蟴蟵蟶蟷蟸蟹蟺蟻蟼蟽蟾蟿袀袁袂袃袄袅袆袇袈袉袊袋袌袍袎袏袐袑袒袓袔袕袖袗袘袙袚袛袜袝袞袟袠袡袢袣袤袥袦袧袨袩袪被袬袭袮袯袰袱袲袳袴袵袶袷袸袹袺袻袼袽袾袿裀裁裂裃裄装裆裇裈裉裊裋裌裍裎裏裐裑裒裓裔裕裖裗裘裙裚裛補裝裞裟裠裡裢裣裤裥裦裧裨裩裪裫裬裭裮裯裰裱裲裳裴裵裶裷裸裹裺裻裼製裾裿覀要覂覃覄覅覆覇覈覉覊見覌覍覎規覐覑覒覓覔覕視覗覘覙覚覛覜覝覞覟覠覡覢覣覤覥覦覧覨覩親覫覬覭覮覯覰覱覲観覴覵覶覷覸覹覺覻覼覽覾覿觀见观觃规觅视觇览觉觊觋觌觍觎觏觐觑角觓觔觕觖觗觘觙觚觛觜觝觞觟觠觡觢解觤觥触觧觨觩觪觫觬觭觮觯觰觱觲觳觴觵觶觷觸觹觺觻觼觽觾觿誀誁誂誃誄誅誆誇誈誉誊誋誌認誎誏誐誑誒誓誔誕誖誗誘誙誚誛誜誝語誟誠誡誢誣誤誥誦誧誨誩說誫説読誮誯誰誱課誳誴誵誶誷誸誹誺誻誼誽誾調諀諁諂諃諄諅諆談諈諉諊請諌諍諎諏諐諑諒諓諔諕論諗諘諙諚諛諜諝諞諟諠諡諢諣諤諥諦諧諨諩諪諫諬諭諮諯諰諱諲諳諴諵諶諷諸諹諺諻諼諽諾諿讀讁讂讃讄讅讆讇讈讉變讋讌讍讎讏讐讑讒讓讔讕讖讗讘讙讚讛讜讝讞讟讠计订讣认讥讦讧讨让讪讫讬训议讯记讱讲讳讴讵讶讷许讹论讻讼讽设访诀证诂诃评诅识诇诈诉诊诋诌词诎诏诐译诒诓诔试诖诗诘诙诚诛诜话诞诟诠诡询诣诤该详诧诨诩诪诫诬语诮误诰诱诲诳说诵诶请诸诹诺读诼诽课诿貀貁貂貃貄貅貆貇貈貉貊貋貌貍貎貏貐貑貒貓貔貕貖貗貘貙貚貛貜貝貞貟負財貢貣貤貥貦貧貨販貪貫責貭貮貯貰貱貲貳貴貵貶買貸貹貺費貼貽貾貿賀賁賂賃賄賅賆資賈賉賊賋賌賍賎賏賐賑賒賓賔賕賖賗賘賙賚賛賜賝賞賟賠賡賢賣賤賥賦賧賨賩質賫賬賭賮賯賰賱賲賳賴賵賶賷賸賹賺賻購賽賾賿趀趁趂趃趄超趆趇趈趉越趋趌趍趎趏趐趑趒趓趔趕趖趗趘趙趚趛趜趝趞趟趠趡趢趣趤趥趦趧趨趩趪趫趬趭趮趯趰趱趲足趴趵趶趷趸趹趺趻趼趽趾趿跀跁跂跃跄跅跆跇跈跉跊跋跌跍跎跏跐跑跒跓跔跕跖跗跘跙跚跛跜距跞跟跠跡跢跣跤跥跦跧跨跩跪跫跬跭跮路跰跱跲跳跴践跶跷跸跹跺跻跼跽跾跿躀躁躂躃躄躅躆躇躈躉躊躋躌躍躎躏躐躑躒躓躔躕躖躗躘躙躚躛躜躝躞躟躠躡躢躣躤躥躦躧躨躩躪身躬躭躮躯躰躱躲躳躴躵躶躷躸躹躺躻躼躽躾躿軀軁軂軃軄軅軆軇軈軉車軋軌軍軎軏軐軑軒軓軔軕軖軗軘軙軚軛軜軝軞軟軠軡転軣軤軥軦軧軨軩軪軫軬軭軮軯軰軱軲軳軴軵軶軷軸軹軺軻軼軽軾軿辀辁辂较辄辅辆辇辈辉辊辋辌辍辎辏辐辑辒输辔辕辖辗辘辙辚辛辜辝辞辟辠辡辢辣辤辥辦辧辨辩辪辫辬辭辮辯辰辱農辳辴辵辶辷辸边辺辻込辽达辿迀迁迂迃迄迅迆过迈迉迊迋迌迍迎迏运近迒迓返迕迖迗还这迚进远违连迟迠迡迢迣迤迥迦迧迨迩迪迫迬迭迮迯述迱迲迳迴迵迶迷迸迹迺迻迼追迾迿邀邁邂邃還邅邆邇邈邉邊邋邌邍邎邏邐邑邒邓邔邕邖邗邘邙邚邛邜邝邞邟邠邡邢那邤邥邦邧邨邩邪邫邬邭邮邯邰邱邲邳邴邵邶邷邸邹邺邻邼邽邾邿郀郁郂郃郄郅郆郇郈郉郊郋郌郍郎郏郐郑郒郓郔郕郖郗郘郙郚郛郜郝郞郟郠郡郢郣郤郥郦郧部郩郪郫郬郭郮郯郰郱郲郳郴郵郶郷郸郹郺郻郼都郾郿"
    \o "醀醁醂醃醄醅醆醇醈醉醊醋醌醍醎醏醐醑醒醓醔醕醖醗醘醙醚醛醜醝醞醟醠醡醢醣醤醥醦醧醨醩醪醫醬醭醮醯醰醱醲醳醴醵醶醷醸醹醺醻醼醽醾醿釀釁釂釃釄釅釆采釈釉释釋里重野量釐金釒釓釔釕釖釗釘釙釚釛釜針釞釟釠釡釢釣釤釥釦釧釨釩釪釫釬釭釮釯釰釱釲釳釴釵釶釷釸釹釺釻釼釽釾釿銀銁銂銃銄銅銆銇銈銉銊銋銌銍銎銏銐銑銒銓銔銕銖銗銘銙銚銛銜銝銞銟銠銡銢銣銤銥銦銧銨銩銪銫銬銭銮銯銰銱銲銳銴銵銶銷銸銹銺銻銼銽銾銿鋀鋁鋂鋃鋄鋅鋆鋇鋈鋉鋊鋋鋌鋍鋎鋏鋐鋑鋒鋓鋔鋕鋖鋗鋘鋙鋚鋛鋜鋝鋞鋟鋠鋡鋢鋣鋤鋥鋦鋧鋨鋩鋪鋫鋬鋭鋮鋯鋰鋱鋲鋳鋴鋵鋶鋷鋸鋹鋺鋻鋼鋽鋾鋿鎀鎁鎂鎃鎄鎅鎆鎇鎈鎉鎊鎋鎌鎍鎎鎏鎐鎑鎒鎓鎔鎕鎖鎗鎘鎙鎚鎛鎜鎝鎞鎟鎠鎡鎢鎣鎤鎥鎦鎧鎨鎩鎪鎫鎬鎭鎮鎯鎰鎱鎲鎳鎴鎵鎶鎷鎸鎹鎺鎻鎼鎽鎾鎿鏀鏁鏂鏃鏄鏅鏆鏇鏈鏉鏊鏋鏌鏍鏎鏏鏐鏑鏒鏓鏔鏕鏖鏗鏘鏙鏚鏛鏜鏝鏞鏟鏠鏡鏢鏣鏤鏥鏦鏧鏨鏩鏪鏫鏬鏭鏮鏯鏰鏱鏲鏳鏴鏵鏶鏷鏸鏹鏺鏻鏼鏽鏾鏿钀钁钂钃钄钅钆钇针钉钊钋钌钍钎钏钐钑钒钓钔钕钖钗钘钙钚钛钜钝钞钟钠钡钢钣钤钥钦钧钨钩钪钫钬钭钮钯钰钱钲钳钴钵钶钷钸钹钺钻钼钽钾钿铀铁铂铃铄铅铆铇铈铉铊铋铌铍铎铏铐铑铒铓铔铕铖铗铘铙铚铛铜铝铞铟铠铡铢铣铤铥铦铧铨铩铪铫铬铭铮铯铰铱铲铳铴铵银铷铸铹铺铻铼铽链铿門閁閂閃閄閅閆閇閈閉閊開閌閍閎閏閐閑閒間閔閕閖閗閘閙閚閛閜閝閞閟閠閡関閣閤閥閦閧閨閩閪閫閬閭閮閯閰閱閲閳閴閵閶閷閸閹閺閻閼閽閾閿闀闁闂闃闄闅闆闇闈闉闊闋闌闍闎闏闐闑闒闓闔闕闖闗闘闙闚闛關闝闞闟闠闡闢闣闤闥闦闧门闩闪闫闬闭问闯闰闱闲闳间闵闶闷闸闹闺闻闼闽闾闿隀隁隂隃隄隅隆隇隈隉隊隋隌隍階随隐隑隒隓隔隕隖隗隘隙隚際障隝隞隟隠隡隢隣隤隥隦隧隨隩險隫隬隭隮隯隰隱隲隳隴隵隶隷隸隹隺隻隼隽难隿雀雁雂雃雄雅集雇雈雉雊雋雌雍雎雏雐雑雒雓雔雕雖雗雘雙雚雛雜雝雞雟雠雡離難雤雥雦雧雨雩雪雫雬雭雮雯雰雱雲雳雴雵零雷雸雹雺電雼雽雾雿鞀鞁鞂鞃鞄鞅鞆鞇鞈鞉鞊鞋鞌鞍鞎鞏鞐鞑鞒鞓鞔鞕鞖鞗鞘鞙鞚鞛鞜鞝鞞鞟鞠鞡鞢鞣鞤鞥鞦鞧鞨鞩鞪鞫鞬鞭鞮鞯鞰鞱鞲鞳鞴鞵鞶鞷鞸鞹鞺鞻鞼鞽鞾鞿韀韁韂韃韄韅韆韇韈韉韊韋韌韍韎韏韐韑韒韓韔韕韖韗韘韙韚韛韜韝韞韟韠韡韢韣韤韥韦韧韨韩韪韫韬韭韮韯韰韱韲音韴韵韶韷韸韹韺韻韼韽韾響颀颁颂颃预颅领颇颈颉颊颋颌颍颎颏颐频颒颓颔颕颖颗题颙颚颛颜额颞颟颠颡颢颣颤颥颦颧風颩颪颫颬颭颮颯颰颱颲颳颴颵颶颷颸颹颺颻颼颽颾颿飀飁飂飃飄飅飆飇飈飉飊飋飌飍风飏飐飑飒飓飔飕飖飗飘飙飚飛飜飝飞食飠飡飢飣飤飥飦飧飨飩飪飫飬飭飮飯飰飱飲飳飴飵飶飷飸飹飺飻飼飽飾飿馀馁馂馃馄馅馆馇馈馉馊馋馌馍馎馏馐馑馒馓馔馕首馗馘香馚馛馜馝馞馟馠馡馢馣馤馥馦馧馨馩馪馫馬馭馮馯馰馱馲馳馴馵馶馷馸馹馺馻馼馽馾馿駀駁駂駃駄駅駆駇駈駉駊駋駌駍駎駏駐駑駒駓駔駕駖駗駘駙駚駛駜駝駞駟駠駡駢駣駤駥駦駧駨駩駪駫駬駭駮駯駰駱駲駳駴駵駶駷駸駹駺駻駼駽駾駿骀骁骂骃骄骅骆骇骈骉骊骋验骍骎骏骐骑骒骓骔骕骖骗骘骙骚骛骜骝骞骟骠骡骢骣骤骥骦骧骨骩骪骫骬骭骮骯骰骱骲骳骴骵骶骷骸骹骺骻骼骽骾骿髀髁髂髃髄髅髆髇髈髉髊髋髌髍髎髏髐髑髒髓體髕髖髗高髙髚髛髜髝髞髟髠髡髢髣髤髥髦髧髨髩髪髫髬髭髮髯髰髱髲髳髴髵髶髷髸髹髺髻髼髽髾髿鮀鮁鮂鮃鮄鮅鮆鮇鮈鮉鮊鮋鮌鮍鮎鮏鮐鮑鮒鮓鮔鮕鮖鮗鮘鮙鮚鮛鮜鮝鮞鮟鮠鮡鮢鮣鮤鮥鮦鮧鮨鮩鮪鮫鮬鮭鮮鮯鮰鮱鮲鮳鮴鮵鮶鮷鮸鮹鮺鮻鮼鮽鮾鮿鯀鯁鯂鯃鯄鯅鯆鯇鯈鯉鯊鯋鯌鯍鯎鯏鯐鯑鯒鯓鯔鯕鯖鯗鯘鯙鯚鯛鯜鯝鯞鯟鯠鯡鯢鯣鯤鯥鯦鯧鯨鯩鯪鯫鯬鯭鯮鯯鯰鯱鯲鯳鯴鯵鯶鯷鯸鯹鯺鯻鯼鯽鯾鯿鲀鲁鲂鲃鲄鲅鲆鲇鲈鲉鲊鲋鲌鲍鲎鲏鲐鲑鲒鲓鲔鲕鲖鲗鲘鲙鲚鲛鲜鲝鲞鲟鲠鲡鲢鲣鲤鲥鲦鲧鲨鲩鲪鲫鲬鲭鲮鲯鲰鲱鲲鲳鲴鲵鲶鲷鲸鲹鲺鲻鲼鲽鲾鲿鳀鳁鳂鳃鳄鳅鳆鳇鳈鳉鳊鳋鳌鳍鳎鳏鳐鳑鳒鳓鳔鳕鳖鳗鳘鳙鳚鳛鳜鳝鳞鳟鳠鳡鳢鳣鳤鳥鳦鳧鳨鳩鳪鳫鳬鳭鳮鳯鳰鳱鳲鳳鳴鳵鳶鳷鳸鳹鳺鳻鳼鳽鳾鳿鶀鶁鶂鶃鶄鶅鶆鶇鶈鶉鶊鶋鶌鶍鶎鶏鶐鶑鶒鶓鶔鶕鶖鶗鶘鶙鶚鶛鶜鶝鶞鶟鶠鶡鶢鶣鶤鶥鶦鶧鶨鶩鶪鶫鶬鶭鶮鶯鶰鶱鶲鶳鶴鶵鶶鶷鶸鶹鶺鶻鶼鶽鶾鶿鷀鷁鷂鷃鷄鷅鷆鷇鷈鷉鷊鷋鷌鷍鷎鷏鷐鷑鷒鷓鷔鷕鷖鷗鷘鷙鷚鷛鷜鷝鷞鷟鷠鷡鷢鷣鷤鷥鷦鷧鷨鷩鷪鷫鷬鷭鷮鷯鷰鷱鷲鷳鷴鷵鷶鷷鷸鷹鷺鷻鷼鷽鷾鷿麀麁麂麃麄麅麆麇麈麉麊麋麌麍麎麏麐麑麒麓麔麕麖麗麘麙麚麛麜麝麞麟麠麡麢麣麤麥麦麧麨麩麪麫麬麭麮麯麰麱麲麳麴麵麶麷麸麹麺麻麼麽麾麿黀黁黂黃黄黅黆黇黈黉黊黋黌黍黎黏黐黑黒黓黔黕黖黗默黙黚黛黜黝點黟黠黡黢黣黤黥黦黧黨黩黪黫黬黭黮黯黰黱黲黳黴黵黶黷黸黹黺黻黼黽黾黿龀龁龂龃龄龅龆龇龈龉龊龋龌龍龎龏龐龑龒龓龔龕龖龗龘龙龚龛龜龝龞龟龠龡龢龣龤龥龦龧龨龩龪龫龬龭龮龯龰龱龲龳龴龵龶龷龸龹龺龻龼龽龾龿鿀鿁鿂鿃鿄鿅鿆鿇鿈鿉鿊鿋鿌鿍鿎鿏鿐鿑鿒鿓鿔鿕鿖鿗鿘鿙鿚鿛鿜鿝鿞鿟鿠鿡鿢鿣鿤鿥鿦鿧鿨鿩鿪鿫鿬鿭鿮鿯鿰鿱鿲鿳鿴鿵鿶鿷鿸鿹鿺鿻鿼鿽鿾鿿ꂀꂁꂂꂃꂄꂅꂆꂇꂈꂉꂊꂋꂌꂍꂎꂏꂐꂑꂒꂓꂔꂕꂖꂗꂘꂙꂚꂛꂜꂝꂞꂟꂠꂡꂢꂣꂤꂥꂦꂧꂨꂩꂪꂫꂬꂭꂮꂯꂰꂱꂲꂳꂴꂵꂶꂷꂸꂹꂺꂻꂼꂽꂾꂿꃀꃁꃂꃃꃄꃅꃆꃇꃈꃉꃊꃋꃌꃍꃎꃏꃐꃑꃒꃓꃔꃕꃖꃗꃘꃙꃚꃛꃜꃝꃞꃟꃠꃡꃢꃣꃤꃥꃦꃧꃨꃩꃪꃫꃬꃭꃮꃯꃰꃱꃲꃳꃴꃵꃶꃷꃸꃹꃺꃻꃼꃽꃾꃿ"
    \o "ꆀꆁꆂꆃꆄꆅꆆꆇꆈꆉꆊꆋꆌꆍꆎꆏꆐꆑꆒꆓꆔꆕꆖꆗꆘꆙꆚꆛꆜꆝꆞꆟꆠꆡꆢꆣꆤꆥꆦꆧꆨꆩꆪꆫꆬꆭꆮꆯꆰꆱꆲꆳꆴꆵꆶꆷꆸꆹꆺꆻꆼꆽꆾꆿꇀꇁꇂꇃꇄꇅꇆꇇꇈꇉꇊꇋꇌꇍꇎꇏꇐꇑꇒꇓꇔꇕꇖꇗꇘꇙꇚꇛꇜꇝꇞꇟꇠꇡꇢꇣꇤꇥꇦꇧꇨꇩꇪꇫꇬꇭꇮꇯꇰꇱꇲꇳꇴꇵꇶꇷꇸꇹꇺꇻꇼꇽꇾꇿꊀꊁꊂꊃꊄꊅꊆꊇꊈꊉꊊꊋꊌꊍꊎꊏꊐꊑꊒꊓꊔꊕꊖꊗꊘꊙꊚꊛꊜꊝꊞꊟꊠꊡꊢꊣꊤꊥꊦꊧꊨꊩꊪꊫꊬꊭꊮꊯꊰꊱꊲꊳꊴꊵꊶꊷꊸꊹꊺꊻꊼꊽꊾꊿꋀꋁꋂꋃꋄꋅꋆꋇꋈꋉꋊꋋꋌꋍꋎꋏꋐꋑꋒꋓꋔꋕꋖꋗꋘꋙꋚꋛꋜꋝꋞꋟꋠꋡꋢꋣꋤꋥꋦꋧꋨꋩꋪꋫꋬꋭꋮꋯꋰꋱꋲꋳꋴꋵꋶꋷꋸꋹꋺꋻꋼꋽꋾꋿꎀꎁꎂꎃꎄꎅꎆꎇꎈꎉꎊꎋꎌꎍꎎꎏꎐꎑꎒꎓꎔꎕꎖꎗꎘꎙꎚꎛꎜꎝꎞꎟꎠꎡꎢꎣꎤꎥꎦꎧꎨꎩꎪꎫꎬꎭꎮꎯꎰꎱꎲꎳꎴꎵꎶꎷꎸꎹꎺꎻꎼꎽꎾꎿꏀꏁꏂꏃꏄꏅꏆꏇꏈꏉꏊꏋꏌꏍꏎꏏꏐꏑꏒꏓꏔꏕꏖꏗꏘꏙꏚꏛꏜꏝꏞꏟꏠꏡꏢꏣꏤꏥꏦꏧꏨꏩꏪꏫꏬꏭꏮꏯꏰꏱꏲꏳꏴꏵꏶꏷꏸꏹꏺꏻꏼꏽꏾꏿꒀꒁꒂꒃꒄꒅꒆꒇꒈꒉꒊꒋꒌ꒍꒎꒏꒐꒑꒒꒓꒔꒕꒖꒗꒘꒙꒚꒛꒜꒝꒞꒟꒠꒡꒢꒣꒤꒥꒦꒧꒨꒩꒪꒫꒬꒭꒮꒯꒰꒱꒲꒳꒴꒵꒶꒷꒸꒹꒺꒻꒼꒽꒾꒿꓀꓁꓂꓃꓄꓅꓆꓇꓈꓉꓊꓋꓌꓍꓎꓏ꓐꓑꓒꓓꓔꓕꓖꓗꓘꓙꓚꓛꓜꓝꓞꓟꓠꓡꓢꓣꓤꓥꓦꓧꓨꓩꓪꓫꓬꓭꓮꓯꓰꓱꓲꓳꓴꓵꓶꓷꓸꓹꓺꓻꓼꓽ꓾꓿ꖀꖁꖂꖃꖄꖅꖆꖇꖈꖉꖊꖋꖌꖍꖎꖏꖐꖑꖒꖓꖔꖕꖖꖗꖘꖙꖚꖛꖜꖝꖞꖟꖠꖡꖢꖣꖤꖥꖦꖧꖨꖩꖪꖫꖬꖭꖮꖯꖰꖱꖲꖳꖴꖵꖶꖷꖸꖹꖺꖻꖼꖽꖾꖿꗀꗁꗂꗃꗄꗅꗆꗇꗈꗉꗊꗋꗌꗍꗎꗏꗐꗑꗒꗓꗔꗕꗖꗗꗘꗙꗚꗛꗜꗝꗞꗟꗠꗡꗢꗣꗤꗥꗦꗧꗨꗩꗪꗫꗬꗭꗮꗯꗰꗱꗲꗳꗴꗵꗶꗷꗸꗹꗺꗻꗼꗽꗾꗿꚀꚁꚂꚃꚄꚅꚆꚇꚈꚉꚊꚋꚌꚍꚎꚏꚐꚑꚒꚓꚔꚕꚖꚗꚘꚙꚚꚛꚜꚝꚞꚟꚠꚡꚢꚣꚤꚥꚦꚧꚨꚩꚪꚫꚬꚭꚮꚯꚰꚱꚲꚳꚴꚵꚶꚷꚸꚹꚺꚻꚼꚽꚾꚿꛀꛁꛂꛃꛄꛅꛆꛇꛈꛉꛊꛋꛌꛍꛎꛏꛐꛑꛒꛓꛔꛕꛖꛗꛘꛙꛚꛛꛜꛝꛞꛟꛠꛡꛢꛣꛤꛥꛦꛧꛨꛩꛪꛫꛬꛭꛮꛯ꛰꛱꛲꛳꛴꛵꛶꛷꛸꛹꛺꛻꛼꛽꛾꛿ꞀꞁꞂꞃꞄꞅꞆꞇꞈ꞉꞊ꞋꞌꞍꞎꞏꞐꞑꞒꞓꞔꞕꞖꞗꞘꞙꞚꞛꞜꞝꞞꞟꞠꞡꞢꞣꞤꞥꞦꞧꞨꞩꞪꞫꞬꞭꞮꞯꞰꞱꞲꞳꞴꞵꞶꞷꞸꞹꞺꞻꞼꞽꞾꞿꟀꟁꟂꟃꟄꟅꟆꟇꟈꟉꟊꟋꟌꟍ꟎꟏Ꟑꟑ꟒ꟓ꟔ꟕꟖꟗꟘꟙꟚꟛꟜ꟝꟞꟟꟠꟡꟢꟣꟤꟥꟦꟧꟨꟩꟪꟫꟬꟭꟮꟯꟰꟱ꟲꟳꟴꟵꟶꟷꟸꟹꟺꟻꟼꟽꟾꟿꢀꢁꢂꢃꢄꢅꢆꢇꢈꢉꢊꢋꢌꢍꢎꢏꢐꢑꢒꢓꢔꢕꢖꢗꢘꢙꢚꢛꢜꢝꢞꢟꢠꢡꢢꢣꢤꢥꢦꢧꢨꢩꢪꢫꢬꢭꢮꢯꢰꢱꢲꢳꢴꢵꢶꢷꢸꢹꢺꢻꢼꢽꢾꢿꣀꣁꣂꣃ꣄ꣅ꣆꣇꣈꣉꣊꣋꣌꣍꣎꣏꣐꣑꣒꣓꣔꣕꣖꣗꣘꣙꣚꣛꣜꣝꣞꣟꣠꣡꣢꣣꣤꣥꣦꣧꣨꣩꣪꣫꣬꣭꣮꣯꣰꣱ꣲꣳꣴꣵꣶꣷ꣸꣹꣺ꣻ꣼ꣽꣾꣿꦀꦁꦂꦃꦄꦅꦆꦇꦈꦉꦊꦋꦌꦍꦎꦏꦐꦑꦒꦓꦔꦕꦖꦗꦘꦙꦚꦛꦜꦝꦞꦟꦠꦡꦢꦣꦤꦥꦦꦧꦨꦩꦪꦫꦬꦭꦮꦯꦰꦱꦲ꦳ꦴꦵꦶꦷꦸꦹꦺꦻꦼꦽꦾꦿ꧀꧁꧂꧃꧄꧅꧆꧇꧈꧉꧊꧋꧌꧍꧎ꧏ꧐꧑꧒꧓꧔꧕꧖꧗꧘꧙꧚꧛꧜꧝꧞꧟ꧠꧡꧢꧣꧤꧥꧦꧧꧨꧩꧪꧫꧬꧭꧮꧯ꧰꧱꧲꧳꧴꧵꧶꧷꧸꧹ꧺꧻꧼꧽꧾ꧿ꪀꪁꪂꪃꪄꪅꪆꪇꪈꪉꪊꪋꪌꪍꪎꪏꪐꪑꪒꪓꪔꪕꪖꪗꪘꪙꪚꪛꪜꪝꪞꪟꪠꪡꪢꪣꪤꪥꪦꪧꪨꪩꪪꪫꪬꪭꪮꪯꪰꪱꪴꪲꪳꪵꪶꪷꪸꪹꪺꪻꪼꪽꪾ꪿ꫀ꫁ꫂ꫃꫄꫅꫆꫇꫈꫉꫊꫋꫌꫍꫎꫏꫐꫑꫒꫓꫔꫕꫖꫗꫘꫙꫚ꫛꫜꫝ꫞꫟ꫠꫡꫢꫣꫤꫥꫦꫧꫨꫩꫪꫫꫬꫭꫮꫯ꫰꫱ꫲꫳꫴꫵ꫶꫷꫸꫹꫺꫻꫼꫽꫾꫿ꮀꮁꮂꮃꮄꮅꮆꮇꮈꮉꮊꮋꮌꮍꮎꮏꮐꮑꮒꮓꮔꮕꮖꮗꮘꮙꮚꮛꮜꮝꮞꮟꮠꮡꮢꮣꮤꮥꮦꮧꮨꮩꮪꮫꮬꮭꮮꮯꮰꮱꮲꮳꮴꮵꮶꮷꮸꮹꮺꮻꮼꮽꮾꮿꯀꯁꯂꯃꯄꯅꯆꯇꯈꯉꯊꯋꯌꯍꯎꯏꯐꯑꯒꯓꯔꯕꯖꯗꯘꯙꯚꯛꯜꯝꯞꯟꯠꯡꯢꯣꯤꯥꯦꯧꯨꯩꯪ꯫꯬꯭꯮꯯꯰꯱꯲꯳꯴꯵꯶꯷꯸꯹꯺꯻꯼꯽꯾꯿검겁겂것겄겅겆겇겈겉겊겋게겍겎겏겐겑겒겓겔겕겖겗겘겙겚겛겜겝겞겟겠겡겢겣겤겥겦겧겨격겪겫견겭겮겯결겱겲겳겴겵겶겷겸겹겺겻겼경겾겿곀곁곂곃계곅곆곇곈곉곊곋곌곍곎곏곐곑곒곓곔곕곖곗곘곙곚곛곜곝곞곟고곡곢곣곤곥곦곧골곩곪곫곬곭곮곯곰곱곲곳곴공곶곷곸곹곺곻과곽곾곿궀궁궂궃궄궅궆궇궈궉궊궋권궍궎궏궐궑궒궓궔궕궖궗궘궙궚궛궜궝궞궟궠궡궢궣궤궥궦궧궨궩궪궫궬궭궮궯궰궱궲궳궴궵궶궷궸궹궺궻궼궽궾궿귀귁귂귃귄귅귆귇귈귉귊귋귌귍귎귏귐귑귒귓귔귕귖귗귘귙귚귛규귝귞귟균귡귢귣귤귥귦귧귨귩귪귫귬귭귮귯귰귱귲귳귴귵귶귷그극귺귻근귽귾귿꺀꺁꺂꺃꺄꺅꺆꺇꺈꺉꺊꺋꺌꺍꺎꺏꺐꺑꺒꺓꺔꺕꺖꺗꺘꺙꺚꺛꺜꺝꺞꺟꺠꺡꺢꺣꺤꺥꺦꺧꺨꺩꺪꺫꺬꺭꺮꺯꺰꺱꺲꺳꺴꺵꺶꺷꺸꺹꺺꺻꺼꺽꺾꺿껀껁껂껃껄껅껆껇껈껉껊껋껌껍껎껏껐껑껒껓껔껕껖껗께껙껚껛껜껝껞껟껠껡껢껣껤껥껦껧껨껩껪껫껬껭껮껯껰껱껲껳껴껵껶껷껸껹껺껻껼껽껾껿꾀꾁꾂꾃꾄꾅꾆꾇꾈꾉꾊꾋꾌꾍꾎꾏꾐꾑꾒꾓꾔꾕꾖꾗꾘꾙꾚꾛꾜꾝꾞꾟꾠꾡꾢꾣꾤꾥꾦꾧꾨꾩꾪꾫꾬꾭꾮꾯꾰꾱꾲꾳꾴꾵꾶꾷꾸꾹꾺꾻꾼꾽꾾꾿꿀꿁꿂꿃꿄꿅꿆꿇꿈꿉꿊꿋꿌꿍꿎꿏꿐꿑꿒꿓꿔꿕꿖꿗꿘꿙꿚꿛꿜꿝꿞꿟꿠꿡꿢꿣꿤꿥꿦꿧꿨꿩꿪꿫꿬꿭꿮꿯꿰꿱꿲꿳꿴꿵꿶꿷꿸꿹꿺꿻꿼꿽꿾꿿낀낁낂낃낄낅낆낇낈낉낊낋낌낍낎낏낐낑낒낓낔낕낖낗나낙낚낛난낝낞낟날낡낢낣낤낥낦낧남납낪낫났낭낮낯낰낱낲낳내낵낶낷낸낹낺낻낼낽낾낿냀냁냂냃냄냅냆냇냈냉냊냋냌냍냎냏냐냑냒냓냔냕냖냗냘냙냚냛냜냝냞냟냠냡냢냣냤냥냦냧냨냩냪냫냬냭냮냯냰냱냲냳냴냵냶냷냸냹냺냻냼냽냾냿"
    \o "놀놁놂놃놄놅놆놇놈놉놊놋놌농놎놏놐놑높놓놔놕놖놗놘놙놚놛놜놝놞놟놠놡놢놣놤놥놦놧놨놩놪놫놬놭놮놯놰놱놲놳놴놵놶놷놸놹놺놻놼놽놾놿뇀뇁뇂뇃뇄뇅뇆뇇뇈뇉뇊뇋뇌뇍뇎뇏뇐뇑뇒뇓뇔뇕뇖뇗뇘뇙뇚뇛뇜뇝뇞뇟뇠뇡뇢뇣뇤뇥뇦뇧뇨뇩뇪뇫뇬뇭뇮뇯뇰뇱뇲뇳뇴뇵뇶뇷뇸뇹뇺뇻뇼뇽뇾뇿늀늁늂늃늄늅늆늇늈늉늊늋늌늍늎늏느늑늒늓는늕늖늗늘늙늚늛늜늝늞늟늠늡늢늣늤능늦늧늨늩늪늫늬늭늮늯늰늱늲늳늴늵늶늷늸늹늺늻늼늽늾늿닀닁닂닃닄닅닆닇니닉닊닋닌닍닎닏닐닑닒닓닔닕닖닗님닙닚닛닜닝닞닟닠닡닢닣다닥닦닧단닩닪닫달닭닮닯닰닱닲닳담답닶닷닸당닺닻닼닽닾닿뎀뎁뎂뎃뎄뎅뎆뎇뎈뎉뎊뎋뎌뎍뎎뎏뎐뎑뎒뎓뎔뎕뎖뎗뎘뎙뎚뎛뎜뎝뎞뎟뎠뎡뎢뎣뎤뎥뎦뎧뎨뎩뎪뎫뎬뎭뎮뎯뎰뎱뎲뎳뎴뎵뎶뎷뎸뎹뎺뎻뎼뎽뎾뎿돀돁돂돃도독돆돇돈돉돊돋돌돍돎돏돐돑돒돓돔돕돖돗돘동돚돛돜돝돞돟돠돡돢돣돤돥돦돧돨돩돪돫돬돭돮돯돰돱돲돳돴돵돶돷돸돹돺돻돼돽돾돿뒀뒁뒂뒃뒄뒅뒆뒇뒈뒉뒊뒋뒌뒍뒎뒏뒐뒑뒒뒓뒔뒕뒖뒗뒘뒙뒚뒛뒜뒝뒞뒟뒠뒡뒢뒣뒤뒥뒦뒧뒨뒩뒪뒫뒬뒭뒮뒯뒰뒱뒲뒳뒴뒵뒶뒷뒸뒹뒺뒻뒼뒽뒾뒿듀듁듂듃듄듅듆듇듈듉듊듋듌듍듎듏듐듑듒듓듔듕듖듗듘듙듚듛드득듞듟든듡듢듣들듥듦듧듨듩듪듫듬듭듮듯듰등듲듳듴듵듶듷듸듹듺듻듼듽듾듿떀떁떂떃떄떅떆떇떈떉떊떋떌떍떎떏떐떑떒떓떔떕떖떗떘떙떚떛떜떝떞떟떠떡떢떣떤떥떦떧떨떩떪떫떬떭떮떯떰떱떲떳떴떵떶떷떸떹떺떻떼떽떾떿뗀뗁뗂뗃뗄뗅뗆뗇뗈뗉뗊뗋뗌뗍뗎뗏뗐뗑뗒뗓뗔뗕뗖뗗뗘뗙뗚뗛뗜뗝뗞뗟뗠뗡뗢뗣뗤뗥뗦뗧뗨뗩뗪뗫뗬뗭뗮뗯뗰뗱뗲뗳뗴뗵뗶뗷뗸뗹뗺뗻뗼뗽뗾뗿뚀뚁뚂뚃뚄뚅뚆뚇뚈뚉뚊뚋뚌뚍뚎뚏뚐뚑뚒뚓뚔뚕뚖뚗뚘뚙뚚뚛뚜뚝뚞뚟뚠뚡뚢뚣뚤뚥뚦뚧뚨뚩뚪뚫뚬뚭뚮뚯뚰뚱뚲뚳뚴뚵뚶뚷뚸뚹뚺뚻뚼뚽뚾뚿뛀뛁뛂뛃뛄뛅뛆뛇뛈뛉뛊뛋뛌뛍뛎뛏뛐뛑뛒뛓뛔뛕뛖뛗뛘뛙뛚뛛뛜뛝뛞뛟뛠뛡뛢뛣뛤뛥뛦뛧뛨뛩뛪뛫뛬뛭뛮뛯뛰뛱뛲뛳뛴뛵뛶뛷뛸뛹뛺뛻뛼뛽뛾뛿란랁랂랃랄랅랆랇랈랉랊랋람랍랎랏랐랑랒랓랔랕랖랗래랙랚랛랜랝랞랟랠랡랢랣랤랥랦랧램랩랪랫랬랭랮랯랰랱랲랳랴략랶랷랸랹랺랻랼랽랾랿럀럁럂럃럄럅럆럇럈량럊럋럌럍럎럏럐럑럒럓럔럕럖럗럘럙럚럛럜럝럞럟럠럡럢럣럤럥럦럧럨럩럪럫러럭럮럯런럱럲럳럴럵럶럷럸럹럺럻럼럽럾럿뢀뢁뢂뢃뢄뢅뢆뢇뢈뢉뢊뢋뢌뢍뢎뢏뢐뢑뢒뢓뢔뢕뢖뢗뢘뢙뢚뢛뢜뢝뢞뢟뢠뢡뢢뢣뢤뢥뢦뢧뢨뢩뢪뢫뢬뢭뢮뢯뢰뢱뢲뢳뢴뢵뢶뢷뢸뢹뢺뢻뢼뢽뢾뢿룀룁룂룃룄룅룆룇룈룉룊룋료룍룎룏룐룑룒룓룔룕룖룗룘룙룚룛룜룝룞룟룠룡룢룣룤룥룦룧루룩룪룫룬룭룮룯룰룱룲룳룴룵룶룷룸룹룺룻룼룽룾룿릀릁릂릃름릅릆릇릈릉릊릋릌릍릎릏릐릑릒릓릔릕릖릗릘릙릚릛릜릝릞릟릠릡릢릣릤릥릦릧릨릩릪릫리릭릮릯린릱릲릳릴릵릶릷릸릹릺릻림립릾릿맀링맂맃맄맅맆맇마막맊맋만맍많맏말맑맒맓맔맕맖맗맘맙맚맛맜망맞맟맠맡맢맣매맥맦맧맨맩맪맫맬맭맮맯맰맱맲맳맴맵맶맷맸맹맺맻맼맽맾맿몀몁몂몃몄명몆몇몈몉몊몋몌몍몎몏몐몑몒몓몔몕몖몗몘몙몚몛몜몝몞몟몠몡몢몣몤몥몦몧모목몪몫몬몭몮몯몰몱몲몳몴몵몶몷몸몹몺못몼몽몾몿뫀뫁뫂뫃뫄뫅뫆뫇뫈뫉뫊뫋뫌뫍뫎뫏뫐뫑뫒뫓뫔뫕뫖뫗뫘뫙뫚뫛뫜뫝뫞뫟뫠뫡뫢뫣뫤뫥뫦뫧뫨뫩뫪뫫뫬뫭뫮뫯뫰뫱뫲뫳뫴뫵뫶뫷뫸뫹뫺뫻뫼뫽뫾뫿뮀뮁뮂뮃뮄뮅뮆뮇뮈뮉뮊뮋뮌뮍뮎뮏뮐뮑뮒뮓뮔뮕뮖뮗뮘뮙뮚뮛뮜뮝뮞뮟뮠뮡뮢뮣뮤뮥뮦뮧뮨뮩뮪뮫뮬뮭뮮뮯뮰뮱뮲뮳뮴뮵뮶뮷뮸뮹뮺뮻뮼뮽뮾뮿므믁믂믃믄믅믆믇믈믉믊믋믌믍믎믏믐믑믒믓믔믕믖믗믘믙믚믛믜믝믞믟믠믡믢믣믤믥믦믧믨믩믪믫믬믭믮믯믰믱믲믳믴믵믶믷미믹믺믻민믽믾믿벀벁벂벃버벅벆벇번벉벊벋벌벍벎벏벐벑벒벓범법벖벗벘벙벚벛벜벝벞벟베벡벢벣벤벥벦벧벨벩벪벫벬벭벮벯벰벱벲벳벴벵벶벷벸벹벺벻벼벽벾벿변볁볂볃별볅볆볇볈볉볊볋볌볍볎볏볐병볒볓볔볕볖볗볘볙볚볛볜볝볞볟볠볡볢볣볤볥볦볧볨볩볪볫볬볭볮볯볰볱볲볳보복볶볷본볹볺볻볼볽볾볿부북붂붃분붅붆붇불붉붊붋붌붍붎붏붐붑붒붓붔붕붖붗붘붙붚붛붜붝붞붟붠붡붢붣붤붥붦붧붨붩붪붫붬붭붮붯붰붱붲붳붴붵붶붷붸붹붺붻붼붽붾붿뷀뷁뷂뷃뷄뷅뷆뷇뷈뷉뷊뷋뷌뷍뷎뷏뷐뷑뷒뷓뷔뷕뷖뷗뷘뷙뷚뷛뷜뷝뷞뷟뷠뷡뷢뷣뷤뷥뷦뷧뷨뷩뷪뷫뷬뷭뷮뷯뷰뷱뷲뷳뷴뷵뷶뷷뷸뷹뷺뷻뷼뷽뷾뷿뺀뺁뺂뺃뺄뺅뺆뺇뺈뺉뺊뺋뺌뺍뺎뺏뺐뺑뺒뺓뺔뺕뺖뺗뺘뺙뺚뺛뺜뺝뺞뺟뺠뺡뺢뺣뺤뺥뺦뺧뺨뺩뺪뺫뺬뺭뺮뺯뺰뺱뺲뺳뺴뺵뺶뺷뺸뺹뺺뺻뺼뺽뺾뺿뻀뻁뻂뻃뻄뻅뻆뻇뻈뻉뻊뻋뻌뻍뻎뻏뻐뻑뻒뻓뻔뻕뻖뻗뻘뻙뻚뻛뻜뻝뻞뻟뻠뻡뻢뻣뻤뻥뻦뻧뻨뻩뻪뻫뻬뻭뻮뻯뻰뻱뻲뻳뻴뻵뻶뻷뻸뻹뻺뻻뻼뻽뻾뻿뾀뾁뾂뾃뾄뾅뾆뾇뾈뾉뾊뾋뾌뾍뾎뾏뾐뾑뾒뾓뾔뾕뾖뾗뾘뾙뾚뾛뾜뾝뾞뾟뾠뾡뾢뾣뾤뾥뾦뾧뾨뾩뾪뾫뾬뾭뾮뾯뾰뾱뾲뾳뾴뾵뾶뾷뾸뾹뾺뾻뾼뾽뾾뾿뿀뿁뿂뿃뿄뿅뿆뿇뿈뿉뿊뿋뿌뿍뿎뿏뿐뿑뿒뿓뿔뿕뿖뿗뿘뿙뿚뿛뿜뿝뿞뿟뿠뿡뿢뿣뿤뿥뿦뿧뿨뿩뿪뿫뿬뿭뿮뿯뿰뿱뿲뿳뿴뿵뿶뿷뿸뿹뿺뿻뿼뿽뿾뿿삀삁삂삃삄삅삆삇삈삉삊삋삌삍삎삏삐삑삒삓삔삕삖삗삘삙삚삛삜삝삞삟삠삡삢삣삤삥삦삧삨삩삪삫사삭삮삯산삱삲삳살삵삶삷삸삹삺삻삼삽삾삿샀상샂샃샄샅샆샇새색샊샋샌샍샎샏샐샑샒샓샔샕샖샗샘샙샚샛샜생샞샟샠샡샢샣샤샥샦샧샨샩샪샫샬샭샮샯샰샱샲샳샴샵샶샷샸샹샺샻샼샽샾샿"
    \o "솀솁솂솃솄솅솆솇솈솉솊솋소속솎솏손솑솒솓솔솕솖솗솘솙솚솛솜솝솞솟솠송솢솣솤솥솦솧솨솩솪솫솬솭솮솯솰솱솲솳솴솵솶솷솸솹솺솻솼솽솾솿쇀쇁쇂쇃쇄쇅쇆쇇쇈쇉쇊쇋쇌쇍쇎쇏쇐쇑쇒쇓쇔쇕쇖쇗쇘쇙쇚쇛쇜쇝쇞쇟쇠쇡쇢쇣쇤쇥쇦쇧쇨쇩쇪쇫쇬쇭쇮쇯쇰쇱쇲쇳쇴쇵쇶쇷쇸쇹쇺쇻쇼쇽쇾쇿슀슁슂슃슄슅슆슇슈슉슊슋슌슍슎슏슐슑슒슓슔슕슖슗슘슙슚슛슜슝슞슟슠슡슢슣스슥슦슧슨슩슪슫슬슭슮슯슰슱슲슳슴습슶슷슸승슺슻슼슽슾슿싀싁싂싃싄싅싆싇싈싉싊싋싌싍싎싏싐싑싒싓싔싕싖싗싘싙싚싛시식싞싟신싡싢싣실싥싦싧싨싩싪싫심십싮싯싰싱싲싳싴싵싶싷싸싹싺싻싼싽싾싿쎀쎁쎂쎃쎄쎅쎆쎇쎈쎉쎊쎋쎌쎍쎎쎏쎐쎑쎒쎓쎔쎕쎖쎗쎘쎙쎚쎛쎜쎝쎞쎟쎠쎡쎢쎣쎤쎥쎦쎧쎨쎩쎪쎫쎬쎭쎮쎯쎰쎱쎲쎳쎴쎵쎶쎷쎸쎹쎺쎻쎼쎽쎾쎿쏀쏁쏂쏃쏄쏅쏆쏇쏈쏉쏊쏋쏌쏍쏎쏏쏐쏑쏒쏓쏔쏕쏖쏗쏘쏙쏚쏛쏜쏝쏞쏟쏠쏡쏢쏣쏤쏥쏦쏧쏨쏩쏪쏫쏬쏭쏮쏯쏰쏱쏲쏳쏴쏵쏶쏷쏸쏹쏺쏻쏼쏽쏾쏿쒀쒁쒂쒃쒄쒅쒆쒇쒈쒉쒊쒋쒌쒍쒎쒏쒐쒑쒒쒓쒔쒕쒖쒗쒘쒙쒚쒛쒜쒝쒞쒟쒠쒡쒢쒣쒤쒥쒦쒧쒨쒩쒪쒫쒬쒭쒮쒯쒰쒱쒲쒳쒴쒵쒶쒷쒸쒹쒺쒻쒼쒽쒾쒿쓀쓁쓂쓃쓄쓅쓆쓇쓈쓉쓊쓋쓌쓍쓎쓏쓐쓑쓒쓓쓔쓕쓖쓗쓘쓙쓚쓛쓜쓝쓞쓟쓠쓡쓢쓣쓤쓥쓦쓧쓨쓩쓪쓫쓬쓭쓮쓯쓰쓱쓲쓳쓴쓵쓶쓷쓸쓹쓺쓻쓼쓽쓾쓿얀얁얂얃얄얅얆얇얈얉얊얋얌얍얎얏얐양얒얓얔얕얖얗얘얙얚얛얜얝얞얟얠얡얢얣얤얥얦얧얨얩얪얫얬얭얮얯얰얱얲얳어억얶얷언얹얺얻얼얽얾얿엀엁엂엃엄업없엇었엉엊엋엌엍엎엏에엑엒엓엔엕엖엗엘엙엚엛엜엝엞엟엠엡엢엣엤엥엦엧엨엩엪엫여역엮엯연엱엲엳열엵엶엷엸엹엺엻염엽엾엿욀욁욂욃욄욅욆욇욈욉욊욋욌욍욎욏욐욑욒욓요욕욖욗욘욙욚욛욜욝욞욟욠욡욢욣욤욥욦욧욨용욪욫욬욭욮욯우욱욲욳운욵욶욷울욹욺욻욼욽욾욿움웁웂웃웄웅웆웇웈웉웊웋워웍웎웏원웑웒웓월웕웖웗웘웙웚웛웜웝웞웟웠웡웢웣웤웥웦웧웨웩웪웫웬웭웮웯웰웱웲웳웴웵웶웷웸웹웺웻웼웽웾웿잀잁잂잃임입잆잇있잉잊잋잌잍잎잏자작잒잓잔잕잖잗잘잙잚잛잜잝잞잟잠잡잢잣잤장잦잧잨잩잪잫재잭잮잯잰잱잲잳잴잵잶잷잸잹잺잻잼잽잾잿쟀쟁쟂쟃쟄쟅쟆쟇쟈쟉쟊쟋쟌쟍쟎쟏쟐쟑쟒쟓쟔쟕쟖쟗쟘쟙쟚쟛쟜쟝쟞쟟쟠쟡쟢쟣쟤쟥쟦쟧쟨쟩쟪쟫쟬쟭쟮쟯쟰쟱쟲쟳쟴쟵쟶쟷쟸쟹쟺쟻쟼쟽쟾쟿좀좁좂좃좄종좆좇좈좉좊좋좌좍좎좏좐좑좒좓좔좕좖좗좘좙좚좛좜좝좞좟좠좡좢좣좤좥좦좧좨좩좪좫좬좭좮좯좰좱좲좳좴좵좶좷좸좹좺좻좼좽좾좿죀죁죂죃죄죅죆죇죈죉죊죋죌죍죎죏죐죑죒죓죔죕죖죗죘죙죚죛죜죝죞죟죠죡죢죣죤죥죦죧죨죩죪죫죬죭죮죯죰죱죲죳죴죵죶죷죸죹죺죻주죽죾죿즀즁즂즃즄즅즆즇즈즉즊즋즌즍즎즏즐즑즒즓즔즕즖즗즘즙즚즛즜증즞즟즠즡즢즣즤즥즦즧즨즩즪즫즬즭즮즯즰즱즲즳즴즵즶즷즸즹즺즻즼즽즾즿지직짂짃진짅짆짇질짉짊짋짌짍짎짏짐집짒짓짔징짖짗짘짙짚짛짜짝짞짟짠짡짢짣짤짥짦짧짨짩짪짫짬짭짮짯짰짱짲짳짴짵짶짷째짹짺짻짼짽짾짿쪀쪁쪂쪃쪄쪅쪆쪇쪈쪉쪊쪋쪌쪍쪎쪏쪐쪑쪒쪓쪔쪕쪖쪗쪘쪙쪚쪛쪜쪝쪞쪟쪠쪡쪢쪣쪤쪥쪦쪧쪨쪩쪪쪫쪬쪭쪮쪯쪰쪱쪲쪳쪴쪵쪶쪷쪸쪹쪺쪻쪼쪽쪾쪿쫀쫁쫂쫃쫄쫅쫆쫇쫈쫉쫊쫋쫌쫍쫎쫏쫐쫑쫒쫓쫔쫕쫖쫗쫘쫙쫚쫛쫜쫝쫞쫟쫠쫡쫢쫣쫤쫥쫦쫧쫨쫩쫪쫫쫬쫭쫮쫯쫰쫱쫲쫳쫴쫵쫶쫷쫸쫹쫺쫻쫼쫽쫾쫿쮀쮁쮂쮃쮄쮅쮆쮇쮈쮉쮊쮋쮌쮍쮎쮏쮐쮑쮒쮓쮔쮕쮖쮗쮘쮙쮚쮛쮜쮝쮞쮟쮠쮡쮢쮣쮤쮥쮦쮧쮨쮩쮪쮫쮬쮭쮮쮯쮰쮱쮲쮳쮴쮵쮶쮷쮸쮹쮺쮻쮼쮽쮾쮿쯀쯁쯂쯃쯄쯅쯆쯇쯈쯉쯊쯋쯌쯍쯎쯏쯐쯑쯒쯓쯔쯕쯖쯗쯘쯙쯚쯛쯜쯝쯞쯟쯠쯡쯢쯣쯤쯥쯦쯧쯨쯩쯪쯫쯬쯭쯮쯯쯰쯱쯲쯳쯴쯵쯶쯷쯸쯹쯺쯻쯼쯽쯾쯿첀첁첂첃첄첅첆첇첈첉첊첋첌첍첎첏첐첑첒첓첔첕첖첗처척첚첛천첝첞첟철첡첢첣첤첥첦첧첨첩첪첫첬청첮첯첰첱첲첳체첵첶첷첸첹첺첻첼첽첾첿쳀쳁쳂쳃쳄쳅쳆쳇쳈쳉쳊쳋쳌쳍쳎쳏쳐쳑쳒쳓쳔쳕쳖쳗쳘쳙쳚쳛쳜쳝쳞쳟쳠쳡쳢쳣쳤쳥쳦쳧쳨쳩쳪쳫쳬쳭쳮쳯쳰쳱쳲쳳쳴쳵쳶쳷쳸쳹쳺쳻쳼쳽쳾쳿춀춁춂춃춄춅춆춇춈춉춊춋춌춍춎춏춐춑춒춓추축춖춗춘춙춚춛출춝춞춟춠춡춢춣춤춥춦춧춨충춪춫춬춭춮춯춰춱춲춳춴춵춶춷춸춹춺춻춼춽춾춿췀췁췂췃췄췅췆췇췈췉췊췋췌췍췎췏췐췑췒췓췔췕췖췗췘췙췚췛췜췝췞췟췠췡췢췣췤췥췦췧취췩췪췫췬췭췮췯췰췱췲췳췴췵췶췷췸췹췺췻췼췽췾췿캀캁캂캃캄캅캆캇캈캉캊캋캌캍캎캏캐캑캒캓캔캕캖캗캘캙캚캛캜캝캞캟캠캡캢캣캤캥캦캧캨캩캪캫캬캭캮캯캰캱캲캳캴캵캶캷캸캹캺캻캼캽캾캿컀컁컂컃컄컅컆컇컈컉컊컋컌컍컎컏컐컑컒컓컔컕컖컗컘컙컚컛컜컝컞컟컠컡컢컣커컥컦컧컨컩컪컫컬컭컮컯컰컱컲컳컴컵컶컷컸컹컺컻컼컽컾컿쾀쾁쾂쾃쾄쾅쾆쾇쾈쾉쾊쾋쾌쾍쾎쾏쾐쾑쾒쾓쾔쾕쾖쾗쾘쾙쾚쾛쾜쾝쾞쾟쾠쾡쾢쾣쾤쾥쾦쾧쾨쾩쾪쾫쾬쾭쾮쾯쾰쾱쾲쾳쾴쾵쾶쾷쾸쾹쾺쾻쾼쾽쾾쾿쿀쿁쿂쿃쿄쿅쿆쿇쿈쿉쿊쿋쿌쿍쿎쿏쿐쿑쿒쿓쿔쿕쿖쿗쿘쿙쿚쿛쿜쿝쿞쿟쿠쿡쿢쿣쿤쿥쿦쿧쿨쿩쿪쿫쿬쿭쿮쿯쿰쿱쿲쿳쿴쿵쿶쿷쿸쿹쿺쿻쿼쿽쿾쿿킀킁킂킃킄킅킆킇킈킉킊킋킌킍킎킏킐킑킒킓킔킕킖킗킘킙킚킛킜킝킞킟킠킡킢킣키킥킦킧킨킩킪킫킬킭킮킯킰킱킲킳킴킵킶킷킸킹킺킻킼킽킾킿타탁탂탃탄탅탆탇탈탉탊탋탌탍탎탏탐탑탒탓탔탕탖탗탘탙탚탛태택탞탟탠탡탢탣탤탥탦탧탨탩탪탫탬탭탮탯탰탱탲탳탴탵탶탷탸탹탺탻탼탽탾탿"
    \o "톀톁톂톃톄톅톆톇톈톉톊톋톌톍톎톏톐톑톒톓톔톕톖톗톘톙톚톛톜톝톞톟토톡톢톣톤톥톦톧톨톩톪톫톬톭톮톯톰톱톲톳톴통톶톷톸톹톺톻톼톽톾톿퇀퇁퇂퇃퇄퇅퇆퇇퇈퇉퇊퇋퇌퇍퇎퇏퇐퇑퇒퇓퇔퇕퇖퇗퇘퇙퇚퇛퇜퇝퇞퇟퇠퇡퇢퇣퇤퇥퇦퇧퇨퇩퇪퇫퇬퇭퇮퇯퇰퇱퇲퇳퇴퇵퇶퇷퇸퇹퇺퇻퇼퇽퇾퇿튀튁튂튃튄튅튆튇튈튉튊튋튌튍튎튏튐튑튒튓튔튕튖튗튘튙튚튛튜튝튞튟튠튡튢튣튤튥튦튧튨튩튪튫튬튭튮튯튰튱튲튳튴튵튶튷트특튺튻튼튽튾튿틀틁틂틃틄틅틆틇틈틉틊틋틌틍틎틏틐틑틒틓틔틕틖틗틘틙틚틛틜틝틞틟틠틡틢틣틤틥틦틧틨틩틪틫틬틭틮틯티틱틲틳틴틵틶틷틸틹틺틻틼틽틾틿펀펁펂펃펄펅펆펇펈펉펊펋펌펍펎펏펐펑펒펓펔펕펖펗페펙펚펛펜펝펞펟펠펡펢펣펤펥펦펧펨펩펪펫펬펭펮펯펰펱펲펳펴펵펶펷편펹펺펻펼펽펾펿폀폁폂폃폄폅폆폇폈평폊폋폌폍폎폏폐폑폒폓폔폕폖폗폘폙폚폛폜폝폞폟폠폡폢폣폤폥폦폧폨폩폪폫포폭폮폯폰폱폲폳폴폵폶폷폸폹폺폻폼폽폾폿풀풁풂풃풄풅풆풇품풉풊풋풌풍풎풏풐풑풒풓풔풕풖풗풘풙풚풛풜풝풞풟풠풡풢풣풤풥풦풧풨풩풪풫풬풭풮풯풰풱풲풳풴풵풶풷풸풹풺풻풼풽풾풿퓀퓁퓂퓃퓄퓅퓆퓇퓈퓉퓊퓋퓌퓍퓎퓏퓐퓑퓒퓓퓔퓕퓖퓗퓘퓙퓚퓛퓜퓝퓞퓟퓠퓡퓢퓣퓤퓥퓦퓧퓨퓩퓪퓫퓬퓭퓮퓯퓰퓱퓲퓳퓴퓵퓶퓷퓸퓹퓺퓻퓼퓽퓾퓿햀햁햂햃햄햅햆햇했행햊햋햌햍햎햏햐햑햒햓햔햕햖햗햘햙햚햛햜햝햞햟햠햡햢햣햤향햦햧햨햩햪햫햬햭햮햯햰햱햲햳햴햵햶햷햸햹햺햻햼햽햾햿헀헁헂헃헄헅헆헇허헉헊헋헌헍헎헏헐헑헒헓헔헕헖헗험헙헚헛헜헝헞헟헠헡헢헣헤헥헦헧헨헩헪헫헬헭헮헯헰헱헲헳헴헵헶헷헸헹헺헻헼헽헾헿횀횁횂횃횄횅횆횇횈횉횊횋회획횎횏횐횑횒횓횔횕횖횗횘횙횚횛횜횝횞횟횠횡횢횣횤횥횦횧효횩횪횫횬횭횮횯횰횱횲횳횴횵횶횷횸횹횺횻횼횽횾횿훀훁훂훃후훅훆훇훈훉훊훋훌훍훎훏훐훑훒훓훔훕훖훗훘훙훚훛훜훝훞훟훠훡훢훣훤훥훦훧훨훩훪훫훬훭훮훯훰훱훲훳훴훵훶훷훸훹훺훻훼훽훾훿힀힁힂힃힄힅힆힇히힉힊힋힌힍힎힏힐힑힒힓힔힕힖힗힘힙힚힛힜힝힞힟힠힡힢힣힤힥힦힧힨힩힪힫힬힭힮힯ힰힱힲힳힴힵힶힷힸힹힺힻힼힽힾힿퟀퟁퟂퟃퟄퟅퟆ퟇퟈퟉퟊ퟋퟌퟍퟎퟏퟐퟑퟒퟓퟔퟕퟖퟗퟘퟙퟚퟛퟜퟝퟞퟟퟠퟡퟢퟣퟤퟥퟦퟧퟨퟩퟪퟫퟬퟭퟮퟯퟰퟱퟲퟳퟴퟵퟶퟷퟸퟹퟺퟻ퟼퟽퟾퟿"
    \o ""
    \o "呂女廬旅濾礪閭驪麗黎力曆歷轢年憐戀撚漣煉璉秊練聯輦蓮連鍊列劣咽烈裂說廉念捻殮簾獵令囹寧嶺怜玲瑩羚聆鈴零靈領例禮醴隸惡了僚寮尿料樂燎療蓼遼龍暈阮劉杻柳流溜琉留硫紐類六戮陸倫崙淪輪律慄栗率隆利吏履易李梨泥理痢罹裏裡里離匿溺吝燐璘藺隣鱗麟林淋臨立笠粒狀炙識什茶刺婢嬨廒廙彩徭惘慎愈憎慠懲戴揄搜摒敖晴朗望杖歹殺流滛滋漢瀞煮瞧爵犯猪瑱甆画瘝瘟益盛直睊着磌窱節类絛練缾者荒華蝹襁覆視調諸請謁諾諭謹變贈輸遲醙鉶陼難靖韛響頋頻鬒龜𢡊𢡄𣏕㮝䀘䀹𥉉𥳐𧻓齃龎﫚﫛﫜﫝﫞﫟﫠﫡﫢﫣﫤﫥﫦﫧﫨﫩﫪﫫﫬﫭﫮﫯﫰﫱﫲﫳﫴﫵﫶﫷﫸﫹﫺﫻﫼﫽﫾﫿ﮀﮁﮂﮃﮄﮅﮆﮇﮈﮉﮊﮋﮌﮍﮎﮏﮐﮑﮒﮓﮔﮕﮖﮗﮘﮙﮚﮛﮜﮝﮞﮟﮠﮡﮢﮣﮤﮥﮦﮧﮨﮩﮪﮫﮬﮭﮮﮯﮰﮱ﮲﮳﮴﮵﮶﮷﮸﮹﮺﮻﮼﮽﮾﮿﯀﯁﯂﯃﯄﯅﯆﯇﯈﯉﯊﯋﯌﯍﯎﯏﯐﯑﯒ﯓﯔﯕﯖﯗﯘﯙﯚﯛﯜﯝﯞﯟﯠﯡﯢﯣﯤﯥﯦﯧﯨﯩﯪﯫﯬﯭﯮﯯﯰﯱﯲﯳﯴﯵﯶﯷﯸﯹﯺﯻﯼﯽﯾﯿﲀﲁﲂﲃﲄﲅﲆﲇﲈﲉﲊﲋﲌﲍﲎﲏﲐﲑﲒﲓﲔﲕﲖﲗﲘﲙﲚﲛﲜﲝﲞﲟﲠﲡﲢﲣﲤﲥﲦﲧﲨﲩﲪﲫﲬﲭﲮﲯﲰﲱﲲﲳﲴﲵﲶﲷﲸﲹﲺﲻﲼﲽﲾﲿﳀﳁﳂﳃﳄﳅﳆﳇﳈﳉﳊﳋﳌﳍﳎﳏﳐﳑﳒﳓﳔﳕﳖﳗﳘﳙﳚﳛﳜﳝﳞﳟﳠﳡﳢﳣﳤﳥﳦﳧﳨﳩﳪﳫﳬﳭﳮﳯﳰﳱﳲﳳﳴﳵﳶﳷﳸﳹﳺﳻﳼﳽﳾﳿﶀﶁﶂﶃﶄﶅﶆﶇﶈﶉﶊﶋﶌﶍﶎﶏ﶐﶑ﶒﶓﶔﶕﶖﶗﶘﶙﶚﶛﶜﶝﶞﶟﶠﶡﶢﶣﶤﶥﶦﶧﶨﶩﶪﶫﶬﶭﶮﶯﶰﶱﶲﶳﶴﶵﶶﶷﶸﶹﶺﶻﶼﶽﶾﶿﷀﷁﷂﷃﷄﷅﷆﷇ﷈﷉﷊﷋﷌﷍﷎﷏﷐﷑﷒﷓﷔﷕﷖﷗﷘﷙﷚﷛﷜﷝﷞﷟﷠﷡﷢﷣﷤﷥﷦﷧﷨﷩﷪﷫﷬﷭﷮﷯ﷰﷱﷲﷳﷴﷵﷶﷷﷸﷹﷺﷻ﷼﷽﷾﷿ﺀﺁﺂﺃﺄﺅﺆﺇﺈﺉﺊﺋﺌﺍﺎﺏﺐﺑﺒﺓﺔﺕﺖﺗﺘﺙﺚﺛﺜﺝﺞﺟﺠﺡﺢﺣﺤﺥﺦﺧﺨﺩﺪﺫﺬﺭﺮﺯﺰﺱﺲﺳﺴﺵﺶﺷﺸﺹﺺﺻﺼﺽﺾﺿﻀﻁﻂﻃﻄﻅﻆﻇﻈﻉﻊﻋﻌﻍﻎﻏﻐﻑﻒﻓﻔﻕﻖﻗﻘﻙﻚﻛﻜﻝﻞﻟﻠﻡﻢﻣﻤﻥﻦﻧﻨﻩﻪﻫﻬﻭﻮﻯﻰﻱﻲﻳﻴﻵﻶﻷﻸﻹﻺﻻﻼ﻽﻾﻿ﾀﾁﾂﾃﾄﾅﾆﾇﾈﾉﾊﾋﾌﾍﾎﾏﾐﾑﾒﾓﾔﾕﾖﾗﾘﾙﾚﾛﾜﾝﾞﾟﾠﾡﾢﾣﾤﾥﾦﾧﾨﾩﾪﾫﾬﾭﾮﾯﾰﾱﾲﾳﾴﾵﾶﾷﾸﾹﾺﾻﾼﾽﾾ﾿￀￁ￂￃￄￅￆￇ￈￉ￊￋￌￍￎￏ￐￑ￒￓￔￕￖￗ￘￙ￚￛￜ￝￞￟￠￡￢￣￤￥￦￧￨￩￪￫￬￭￮￯￰￱￲￳￴￵￶￷￸￹￺￻￼�￾￿"

\* the code unit of each character of Latin1
Latin1Codes ==
    [c \in {charAt(Latin1, k) : k \in 1..255} |-> CHOOSE k \in 1..255 : charAt(Latin1, k) = c]

\* the code unit of a character that is not in Latin1: that of its place in
\* UpperHalves, or 0
upperHalfCode(c) ==
    Bind({k \in 1..Len(UpperHalves) : charAt(UpperHalves, k) = c}, LAMBDA at :
        IF at = {} THEN 0
        ELSE Bind(Min(at) - 1, LAMBDA k :
                 ((IF k \div 128 < 215 THEN (k \div 128) + 1 ELSE (k \div 128) + 9) * 256)
                     + 128 + (k % 128)))

\* c.charCodeAt(0) of a one-character string c
charCode(c) == IF c \in DOMAIN Latin1Codes THEN Latin1Codes[c] ELSE upperHalfCode(c)

\* the code units of s
codeUnits(s) == [k \in 1..Len(s) |-> charCode(charAt(s, k))]

\* the code units of WhiteSpace and LineTerminator of ECMAScript, which \s matches and
\* String.prototype.trim removes: tab, line feed, vertical tab, form feed, carriage
\* return, space, no-break space, U+1680, U+2000 to U+200A, U+2028, U+2029, U+202F,
\* U+205F, U+3000 and U+FEFF
WhiteSpace ==
    {9, 10, 11, 12, 13, 32, 160, 5760, 8232, 8233, 8239, 8287, 12288, 65279} \cup 8192..8202

\* the code units of the line terminators, which . does not match: line feed, carriage
\* return, U+2028, U+2029
LineTerminators == {10, 13, 8232, 8233}

isWhiteSpace(c) == charCode(c) \in WhiteSpace

startsWith(s, p) == Len(p) <= Len(s) /\ SubSeq(s, 1, Len(p)) = p

endsWith(s, p) == Len(p) <= Len(s) /\ SubSeq(s, Len(s) - Len(p) + 1, Len(s)) = p

includes(s, p) == \E i \in 1..(Len(s) - Len(p) + 1) : SubSeq(s, i, i + Len(p) - 1) = p

trim(s) ==
    Bind({i \in 1..Len(s) : ~isWhiteSpace(charAt(s, i))}, LAMBDA idx :
        IF idx = {} THEN "" ELSE SubSeq(s, Min(idx), Max(idx)))

\* String.prototype.split with a non-empty separator
RECURSIVE split(_, _)
split(s, sep) ==
    Bind({i \in 1..(Len(s) - Len(sep) + 1) : SubSeq(s, i, i + Len(sep) - 1) = sep},
         LAMBDA hits :
        IF hits = {} THEN <<s>>
        ELSE <<SubSeq(s, 1, Min(hits) - 1)>>
             \o split(SubSeq(s, Min(hits) + Len(sep), Len(s)), sep))

\* Array.prototype.join
RECURSIVE join(_, _)
join(parts, sep) ==
    IF Len(parts) = 0 THEN ""
    ELSE IF Len(parts) = 1 THEN parts[1]
    ELSE parts[1] \o sep \o join(Tail(parts), sep)

-----------------------------------------------------------------------------
(* Regular expressions: a backtracking matcher with JavaScript's priorities *)
(* (alternatives left to right, greedy quantifiers longest first, lazy ones *)
(* shortest first). A pattern is a sequence of nodes. It is matched         *)
(* forwards, and the pattern of a lookbehind backwards: from its last node  *)
(* to its first, taking the characters before the position.                 *)

Lit(str) == [t |-> "lit", s |-> str]                       \* literal text
\* one character whose code unit is in codes, as \s; one whose code unit is not, as [^...]
InCodes(codes) == [t |-> "in", cs |-> codes]
NotInCodes(codes) == [t |-> "notin", cs |-> codes]
In(S) == InCodes({charCode(c) : c \in S})                  \* one of the characters of S
NotIn(S) == NotInCodes({charCode(c) : c \in S})            \* any character but those of S
Unbounded == -1                                            \* no upper bound of a quantifier
\* x{min,max} of a one-character class x (lazy when greedy is FALSE)
Repeat(x, min, max, greedy) == [t |-> "rep", x |-> x, min |-> min, max |-> max, greedy |-> greedy]
Star(x) == Repeat(x, 0, Unbounded, TRUE)                   \* x*
Plus(x) == Repeat(x, 1, Unbounded, TRUE)                   \* x+
LazyPlus(x) == Repeat(x, 1, Unbounded, FALSE)              \* x+?
\* (?:xs){min,max} of a pattern xs that holds the capture groups numbered in groups
Loop(xs, min, max, greedy, groups) ==
    [t |-> "loop", xs |-> xs, min |-> min, max |-> max, greedy |-> greedy, groups |-> groups]
\* inside a loop: the iteration that started at position from must have consumed
\* something unless it was one of the min required ones
Progress(from, min) == [t |-> "progress", from |-> from, min |-> min]
Opt(xs) == [t |-> "opt", xs |-> xs]                        \* (?:xs)?
Alt(xss) == [t |-> "alt", xss |-> xss]                     \* (?:a|b|...)
Open(n) == [t |-> "open", n |-> n]                         \* start of capture group n
Close(n) == [t |-> "close", n |-> n]                       \* end of capture group n
StartAnchor == [t |-> "start"]                             \* ^
EndAnchor == [t |-> "end"]                                 \* $
WordBoundary(negate) == [t |-> "wordb", negate |-> negate] \* \b, and \B when negate
\* (?=xs), (?!xs) when negate; behind: (?<=xs), (?<!xs)
Look(xs, behind, negate) == [t |-> "look", xs |-> xs, behind |-> behind, negate |-> negate]
Backref(n) == [t |-> "backref", n |-> n]                   \* \n
AnyChar == NotInCodes(LineTerminators)                         \* . without the s flag
Space == InCodes(WhiteSpace)                               \* \s

NoMatch == [ok |-> FALSE]

\* whether the one-character class x accepts character c
matchesChar(x, c) == (charCode(c) \in x.cs) = (x.t = "in")

\* the character the match meets at pos: the one at pos, or the one before it when
\* matching backwards; "" at the end of the string
charAhead(s, pos, backward) == IF backward THEN peek(s, pos - 1) ELSE peek(s, pos)

\* whether text lies at pos in the direction of the match
textAhead(s, pos, text, backward) ==
    IF backward
    THEN pos - Len(text) >= 1 /\ SubSeq(s, pos - Len(text), pos - 1) = text
    ELSE pos + Len(text) - 1 <= Len(s) /\ SubSeq(s, pos, pos + Len(text) - 1) = text

\* the position k characters further in the direction of the match
moved(pos, k, backward) == IF backward THEN pos - k ELSE pos + k

\* the pattern that matches first and then next
inOrder(first, next, backward) == IF backward THEN next \o first ELSE first \o next

\* the number of characters from pos on, in the direction of the match, that the
\* one-character class x accepts
runLength(x, s, pos, backward) ==
    IF backward
    THEN Bind({k \in 1..(pos - 1) : ~matchesChar(x, charAt(s, k))}, LAMBDA bad :
             IF bad = {} THEN pos - 1 ELSE pos - 1 - Max(bad))
    ELSE Bind({k \in pos..Len(s) : ~matchesChar(x, charAt(s, k))}, LAMBDA bad :
             IF bad = {} THEN Len(s) - pos + 1 ELSE Min(bad) - pos)

\* the code units of the letters, digits and underscore of \w
WordCharacters == 97..122 \cup 65..90 \cup 48..57 \cup {95}

isWordCharacter(c) == charCode(c) \in WordCharacters

\* whether position pos of s lies between a word character and something else
isWordBoundary(s, pos) ==
    (pos > 1 /\ isWordCharacter(charAt(s, pos - 1)))
        # (pos <= Len(s) /\ isWordCharacter(charAt(s, pos)))

\* of the attempts (records [j, m], m a match result), the result with the largest
\* j (greedy) or the smallest j (lazy) among those that matched; NoMatch if none did
firstSuccess(tries, greedy) ==
    Bind({r.j : r \in {q \in tries : q.m.ok}}, LAMBDA lens :
        IF lens = {} THEN NoMatch
        ELSE (CHOOSE r \in tries : r.j = (IF greedy THEN Max(lens) ELSE Min(lens))).m)

\* Match pattern prog against s from position pos, backwards when backward; caps maps
\* the groups closed so far to their text, open maps the groups entered to the position
\* where they were entered. The arguments are computed once, before the match.
RECURSIVE MatchAt(_, _, _, _, _, _)
MatchAt(program, string, from, captured, opened, direction) ==
    Bind(<<program, string, from, captured, opened, direction>>, LAMBDA given :
    LET prog == given[1]
        s == given[2]
        pos == given[3]
        caps == given[4]
        open == given[5]
        back == given[6]
    IN
    IF Len(prog) = 0 THEN [ok |-> TRUE, caps |-> caps, end |-> pos]
    ELSE
    LET n == IF back THEN prog[Len(prog)] ELSE Head(prog)
        rest == IF back THEN SubSeq(prog, 1, Len(prog) - 1) ELSE Tail(prog)
    IN  CASE n.t = "lit" ->
               IF textAhead(s, pos, n.s, back)
               THEN MatchAt(rest, s, moved(pos, Len(n.s), back), caps, open, back)
               ELSE NoMatch
          [] n.t \in {"in", "notin"} ->
               IF charAhead(s, pos, back) # "" /\ matchesChar(n, charAhead(s, pos, back))
               THEN MatchAt(rest, s, moved(pos, 1, back), caps, open, back)
               ELSE NoMatch
          [] n.t = "rep" ->
               \* x is a one-character class: the candidate lengths are tried longest
               \* first (greedy) or shortest first (lazy), and the first that lets the
               \* rest of the pattern match is taken
               firstSuccess({[j |-> j, m |-> MatchAt(rest, s, moved(pos, j, back), caps, open, back)] :
                                j \in n.min..(IF n.max = Unbounded
                                              THEN runLength(n.x, s, pos, back)
                                              ELSE Min({n.max, runLength(n.x, s, pos, back)}))},
                            n.greedy)
          [] n.t = "loop" ->
               \* RepeatMatcher: one more iteration forgets the captures of the groups
               \* inside, and an iteration that matched nothing is refused once the
               \* required ones are done
               LET again == MatchAt(inOrder(n.xs,
                                        inOrder(<<Progress(pos, n.min)>>,
                                            inOrder(<<Loop(n.xs, IF n.min = 0 THEN 0 ELSE n.min - 1,
                                                           IF n.max = Unbounded THEN Unbounded
                                                           ELSE n.max - 1,
                                                           n.greedy, n.groups)>>,
                                                    rest, back),
                                            back),
                                        back),
                                    s, pos, [k \in DOMAIN caps \ n.groups |-> caps[k]], open, back)
                   stop == MatchAt(rest, s, pos, caps, open, back)
               IN  IF n.max = 0 THEN stop
                   ELSE IF n.min # 0 THEN again
                   ELSE IF n.greedy
                   THEN Bind(again, LAMBDA more : IF more.ok THEN more ELSE stop)
                   ELSE Bind(stop, LAMBDA enough : IF enough.ok THEN enough ELSE again)
          [] n.t = "progress" ->
               IF n.min = 0 /\ pos = n.from THEN NoMatch
               ELSE MatchAt(rest, s, pos, caps, open, back)
          [] n.t = "opt" ->
               Bind(MatchAt(inOrder(n.xs, rest, back), s, pos, caps, open, back), LAMBDA with :
                   IF with.ok THEN with ELSE MatchAt(rest, s, pos, caps, open, back))
          [] n.t = "alt" ->
               IF Len(n.xss) = 0 THEN NoMatch
               ELSE Bind(MatchAt(inOrder(Head(n.xss), rest, back), s, pos, caps, open, back),
                         LAMBDA first :
                        IF first.ok THEN first
                        ELSE MatchAt(inOrder(<<Alt(Tail(n.xss))>>, rest, back),
                                     s, pos, caps, open, back))
          [] n.t \in {"open", "close"} ->
               \* the group is entered at its start, and at its end when matching
               \* backwards; where it is left, its capture is the text in between
               IF (n.t = "open") # back
               THEN MatchAt(rest, s, pos, caps, (n.n :> pos) @@ open, back)
               ELSE MatchAt(rest, s, pos,
                            (n.n :> IF back THEN SubSeq(s, pos, open[n.n] - 1)
                                    ELSE SubSeq(s, open[n.n], pos - 1)) @@ caps,
                            open, back)
          [] n.t = "end" ->
               IF pos = Len(s) + 1 THEN MatchAt(rest, s, pos, caps, open, back) ELSE NoMatch
          [] n.t = "start" ->
               IF pos = 1 THEN MatchAt(rest, s, pos, caps, open, back) ELSE NoMatch
          [] n.t = "wordb" ->
               IF isWordBoundary(s, pos) # n.negate
               THEN MatchAt(rest, s, pos, caps, open, back)
               ELSE NoMatch
          [] n.t = "backref" ->
               \* a group that has not taken part in the match matches the empty string
               LET text == IF n.n \in DOMAIN caps THEN caps[n.n] ELSE ""
               IN  IF textAhead(s, pos, text, back)
                   THEN MatchAt(rest, s, moved(pos, Len(text), back), caps, open, back)
                   ELSE NoMatch
          [] n.t = "look" ->
               \* the assertion is matched on its own, forwards or backwards from the
               \* position, and never re-entered
               LET inner == MatchAt(n.xs, s, pos, caps, open, n.behind)
               IN  IF n.negate
                   THEN IF inner.ok THEN NoMatch ELSE MatchAt(rest, s, pos, caps, open, back)
                   ELSE IF inner.ok THEN MatchAt(rest, s, pos, inner.caps, open, back)
                        ELSE NoMatch)

NoCaptures == [n \in {} |-> ""]

NoOpen == [n \in {} |-> 0]

\* String.prototype.match with a pattern that starts with ^
matchAnchored(s, prog) == MatchAt(prog, s, 1, NoCaptures, NoOpen, FALSE)

\* String.prototype.match without ^: the leftmost position where the pattern matches,
\* as index (1-based)
matchSearch(s, prog) ==
    firstSuccess({[j |-> p, m |-> [index |-> p] @@ MatchAt(prog, s, p, NoCaptures, NoOpen, FALSE)] :
                     p \in 1..(Len(s) + 1)}, FALSE)

-----------------------------------------------------------------------------
(* DSLParser *)

\* /^rule\s+"([^"]+)":\s*$/
nameRegex ==
    <<Lit("rule"), Plus(Space), Lit("\""), Open(1), Plus(NotIn({"\""})), Close(1),
      Lit("\":"), Star(Space), EndAnchor>>

\* /^\s*when\s+/
whenPrefixRegex == <<Star(Space), Lit("when"), Plus(Space)>>

\* /^\s*then\s+/
thenPrefixRegex == <<Star(Space), Lit("then"), Plus(Space)>>

\* /(not matches|starts with|ends with|matches|contains|is not|is)/
operatorRegex ==
    <<Open(0),
      Alt(<<(<<Lit("not matches")>>), (<<Lit("starts with")>>), (<<Lit("ends with")>>),
            (<<Lit("matches")>>), (<<Lit("contains")>>), (<<Lit("is not")>>),
            (<<Lit("is")>>)>>),
      Close(0)>>

\* /^set(?:\s+with\s+([^=]+?))?\s+([^=]+?)\s*=\s*(.+)$/
setRegex ==
    <<Lit("set"),
      Opt(<<Plus(Space), Lit("with"), Plus(Space), Open(1), LazyPlus(NotIn({"="})), Close(1)>>),
      Plus(Space), Open(2), LazyPlus(NotIn({"="})), Close(2), Star(Space), Lit("="),
      Star(Space), Open(3), Plus(AnyChar), Close(3), EndAnchor>>

\* /^add(?:\s+with\s+([^"]+?))?\s+"([^"]+)"\s+to\s+(.+)$/
addRegex ==
    <<Lit("add"),
      Opt(<<Plus(Space), Lit("with"), Plus(Space), Open(1), LazyPlus(NotIn({"\""})), Close(1)>>),
      Plus(Space), Lit("\""), Open(2), Plus(NotIn({"\""})), Close(2), Lit("\""),
      Plus(Space), Lit("to"), Plus(Space), Open(3), Plus(AnyChar), Close(3), EndAnchor>>

\* /^remove(?:\s+with\s+([^"]+?))?\s+"([^"]+)"\s+from\s+(.+)$/
removeRegex ==
    <<Lit("remove"),
      Opt(<<Plus(Space), Lit("with"), Plus(Space), Open(1), LazyPlus(NotIn({"\""})), Close(1)>>),
      Plus(Space), Lit("\""), Open(2), Plus(NotIn({"\""})), Close(2), Lit("\""),
      Plus(Space), Lit("from"), Plus(Space), Open(3), Plus(AnyChar), Close(3), EndAnchor>>

\* /^(child|children)\(([^)]+)\)\.(.+)$/
objectWithConditionRegex ==
    <<Open(1), Alt(<<(<<Lit("child")>>), (<<Lit("children")>>)>>), Close(1), Lit("("),
      Open(2), Plus(NotIn({")"})), Close(2), Lit(")"), Lit("."),
      Open(3), Plus(AnyChar), Close(3), EndAnchor>>

\* /^(me|parent|child|children)\.(.+)$/
objectRegex ==
    <<Open(1),
      Alt(<<(<<Lit("me")>>), (<<Lit("parent")>>), (<<Lit("child")>>), (<<Lit("children")>>)>>),
      Close(1), Lit("."), Open(2), Plus(AnyChar), Close(2), EndAnchor>>

\* String.prototype.replace(regex, '') for a regex anchored at the start
removePrefix(s, prog) ==
    Bind(matchAnchored(s, prog), LAMBDA m : IF m.ok THEN SubSeq(s, m.end, Len(s)) ELSE s)

\* an object without properties: {}
EmptyObject == [k \in {} |-> FALSE]

\* parseAlterOptions(optionsText); the argument is <<>> for undefined, <<text>> otherwise
parseAlterOptions(optionsText) ==
    IF optionsText = <<>> \/ optionsText[1] = "" THEN EmptyObject
    ELSE (IF includes(optionsText[1], "notifications")
          THEN [suppressNotifications |-> FALSE] ELSE EmptyObject)
         @@
         (IF includes(optionsText[1], "bypassRules")
          THEN [bypassRules |-> TRUE] ELSE EmptyObject)

\* a capture group of a match: <<text>>, or <<>> when the group did not take part
group(m, n) == IF n \in DOMAIN m.caps THEN <<m.caps[n]>> ELSE <<>>

RECURSIVE parseCondition(_)
RECURSIVE parseOperand(_)

\* parseCondition(conditionText): <<condition>>, or <<>> for null
parseCondition(conditionText) ==
    Bind(matchSearch(conditionText, operatorRegex), LAMBDA operatorMatch :
        IF ~operatorMatch.ok THEN <<>>
        ELSE
        LET operator == operatorMatch.caps[0]
            operatorIndex == operatorMatch.index
            leftText == trim(SubSeq(conditionText, 1, operatorIndex - 1))
            rightText == trim(SubSeq(conditionText, operatorIndex + Len(operator),
                                     Len(conditionText)))
        IN  <<[leftOperand |-> parseOperand(leftText),
               operator |-> operator,
               rightOperand |-> parseOperand(rightText)]>>)

parseOperand(text) ==
    Bind(trim(text), LAMBDA operandText :
        IF startsWith(operandText, "\"") /\ endsWith(operandText, "\"")
        THEN [value |-> SubSeq(operandText, 2, Len(operandText) - 1)]
        ELSE
        Bind(matchAnchored(operandText, objectWithConditionRegex),
             LAMBDA objectWithConditionMatch :
            IF objectWithConditionMatch.ok
            THEN [object |-> objectWithConditionMatch.caps[1],
                  conditions |-> parseCondition(objectWithConditionMatch.caps[2]),
                  field |-> objectWithConditionMatch.caps[3]]
            ELSE
            Bind(matchAnchored(operandText, objectRegex), LAMBDA objectMatch :
                IF objectMatch.ok
                THEN [object |-> objectMatch.caps[1], field |-> objectMatch.caps[2]]
                ELSE [object |-> "implicit", field |-> operandText])))

\* the object parseAction returns for the match m of one of its three patterns, with
\* the target text in capture group targetGroup
thenAction(operator, m, targetGroup, valueToAssign) ==
    [operator |-> operator,
     alterOptions |-> parseAlterOptions(group(m, 1)),
     assignableLeftOperand |-> parseOperand(trim(m.caps[targetGroup])),
     valueToAssign |-> valueToAssign]

\* parseAction(actionText): <<action>>, or <<>> for null
parseAction(actionText) ==
    Bind(matchAnchored(actionText, setRegex), LAMBDA setMatch :
        IF setMatch.ok
        THEN <<thenAction("set", setMatch, 2, parseOperand(trim(setMatch.caps[3])))>>
        ELSE
        Bind(matchAnchored(actionText, addRegex), LAMBDA addMatch :
            IF addMatch.ok
            THEN <<thenAction("add", addMatch, 3, [value |-> addMatch.caps[2]])>>
            ELSE
            Bind(matchAnchored(actionText, removeRegex), LAMBDA removeMatch :
                IF removeMatch.ok
                THEN <<thenAction("remove", removeMatch, 3, [value |-> removeMatch.caps[2]])>>
                ELSE <<>>)))

\* one iteration of the loop that takes " and " for a separator inside quotes too
splitByAndStepIgnoringQuotes(text, st) ==
    LET char == charAt(text, st.i + 1)
    IN  IF char = "\""
        THEN [st EXCEPT !.inQuotes = ~st.inQuotes, !.current = st.current \o char,
                        !.i = st.i + 1]
        ELSE IF st.i + 5 <= Len(text) /\ SubSeq(text, st.i + 1, st.i + 5) = " and "
        THEN [st EXCEPT !.parts = Append(st.parts, trim(st.current)), !.current = "",
                        !.i = st.i + 4 + 1]
        ELSE [st EXCEPT !.current = st.current \o char, !.i = st.i + 1]

\* one iteration of the while loop of splitByAndPreservingQuotes; st holds the
\* locals i (0-based), current, inQuotes and parts
splitByAndStep(text, st) ==
    LET char == charAt(text, st.i + 1)
    IN  IF char = "\""
        THEN [st EXCEPT !.inQuotes = ~st.inQuotes, !.current = st.current \o char,
                        !.i = st.i + 1]
        ELSE IF ~st.inQuotes /\ st.i + 5 <= Len(text)
                /\ SubSeq(text, st.i + 1, st.i + 5) = " and "
        THEN [st EXCEPT !.parts = Append(st.parts, trim(st.current)), !.current = "",
                        !.i = st.i + 4 + 1]
        ELSE [st EXCEPT !.current = st.current \o char, !.i = st.i + 1]

\* up to n iterations of while (i < text.length), run as two halves to keep the
\* evaluation shallow
RECURSIVE splitByAndLoop(_, _, _)
splitByAndLoop(text, st, n) ==
    IF n = 0 \/ ~(st.i < Len(text)) THEN st
    ELSE IF n = 1 THEN splitByAndStep(text, st)
    ELSE Bind(splitByAndLoop(text, st, n \div 2), LAMBDA half :
             splitByAndLoop(text, half, n - (n \div 2)))

splitByAndPreservingQuotes(text) ==
    Bind(splitByAndLoop(text, [i |-> 0, current |-> "", inQuotes |-> FALSE,
                               parts |-> <<>>], Len(text)),
         LAMBDA st :
        IF trim(st.current) # "" THEN Append(st.parts, trim(st.current)) ELSE st.parts)

actionKeywords == <<"set", "add", "remove">>

\* the keywords of actionKeywords that splitActions finds at 0-based position i
keywordsAt(text, i) ==
    {k \in 1..Len(actionKeywords) :
        /\ i + Len(actionKeywords[k]) <= Len(text)
        /\ SubSeq(text, i + 1, i + Len(actionKeywords[k])) = actionKeywords[k]
        /\ (i + Len(actionKeywords[k]) >= Len(text)
            \/ charAt(text, i + Len(actionKeywords[k]) + 1) = " ")}

\* one iteration of a loop that does not skip the keyword it found
splitActionsStepKeepsIndex(text, st) ==
    Bind(IF (st.i = 0 \/ charAt(text, st.i) = " ") /\ trim(st.current) # ""
         THEN keywordsAt(text, st.i) ELSE {},
         LAMBDA found :
        IF found # {}
        THEN LET keyword == actionKeywords[Min(found)]
             IN  [st EXCEPT !.actions = Append(st.actions, trim(st.current)),
                             !.current = keyword]
        ELSE [st EXCEPT !.current = st.current \o charAt(text, st.i + 1), !.i = st.i + 1])

\* one iteration of the while loop of splitActions; st holds the locals i (0-based),
\* current and actions
splitActionsStep(text, st) ==
    Bind(IF (st.i = 0 \/ charAt(text, st.i) = " ") /\ trim(st.current) # ""
         THEN keywordsAt(text, st.i) ELSE {},
         LAMBDA found :
        IF found # {}
        THEN LET keyword == actionKeywords[Min(found)]
             IN  [st EXCEPT !.actions = Append(st.actions, trim(st.current)),
                             !.current = keyword, !.i = st.i + Len(keyword)]
        ELSE [st EXCEPT !.current = st.current \o charAt(text, st.i + 1), !.i = st.i + 1])

\* up to n iterations of while (i < text.length), run as two halves to keep the
\* evaluation shallow
RECURSIVE splitActionsLoop(_, _, _)
splitActionsLoop(text, st, n) ==
    IF n = 0 \/ ~(st.i < Len(text)) THEN st
    ELSE IF n = 1 THEN splitActionsStep(text, st)
    ELSE Bind(splitActionsLoop(text, st, n \div 2), LAMBDA half :
             splitActionsLoop(text, half, n - (n \div 2)))

splitActions(text) ==
    Bind(splitActionsLoop(text, [i |-> 0, current |-> "", actions |-> <<>>], Len(text)),
         LAMBDA st :
        IF trim(st.current) # "" THEN Append(st.actions, trim(st.current)) ELSE st.actions)

\* the items of a sequence of optional values (<<x>> or <<>>) that are present
RECURSIVE present(_)
present(opts) == IF Len(opts) = 0 THEN <<>> ELSE Head(opts) \o present(Tail(opts))

\* getCurrentLine(): <<line>>, or <<>> for undefined
getCurrentLine(ls, i) == IF i < Len(ls) THEN <<ls[i + 1]>> ELSE <<>>

\* this.getCurrentLine()?.trim().startsWith(prefix), undefined read as false
currentLineStartsWith(ls, i, prefix) == i < Len(ls) /\ startsWith(trim(ls[i + 1]), prefix)

\* the index after the multi-line condition loop of parseWhenConditions
RECURSIVE whenLoopEnd(_, _)
whenLoopEnd(ls, i) ==
    IF i < Len(ls) /\ ~currentLineStartsWith(ls, i, "then ") /\ trim(ls[i + 1]) # ""
    THEN whenLoopEnd(ls, i + 1)
    ELSE i

\* the index after the multi-line action loop of parseThenActions
RECURSIVE thenLoopEnd(_, _)
thenLoopEnd(ls, i) ==
    IF i < Len(ls) /\ ~startsWith(ls[i + 1], "rule ") /\ trim(ls[i + 1]) # ""
    THEN thenLoopEnd(ls, i + 1)
    ELSE i

\* the text the loops accumulate: first, then ' ' + line.trim() for the lines from..to-1
RECURSIVE accumulate(_, _, _, _)
accumulate(first, ls, from, to) ==
    IF from >= to THEN first
    ELSE accumulate(first \o " " \o trim(ls[from + 1]), ls, from + 1, to)

\* the Error thrown with currentIndex = i: its message names line i + 1
ParseError(message, i) == [ok |-> FALSE, error |-> message, line |-> i + 1, index |-> i]

\* parseWhenConditions() that throws for a chunk from which no condition is parsed
parseWhenConditionsStrict(ls, i) ==
    IF ~currentLineStartsWith(ls, i, "when ")
    THEN ParseError("Expected 'when' clause", i)
    ELSE
    Bind(whenLoopEnd(ls, i + 1), LAMBDA end :
    Bind(splitByAndPreservingQuotes(
             accumulate(removePrefix(ls[i + 1], whenPrefixRegex), ls, i + 1, end)),
         LAMBDA conditionParts :
        IF \E k \in 1..Len(conditionParts) : parseCondition(trim(conditionParts[k])) = <<>>
        THEN ParseError("Invalid condition", i)
        ELSE [ok |-> TRUE,
              conditions |-> present([k \in 1..Len(conditionParts) |->
                                         parseCondition(trim(conditionParts[k]))]),
              index |-> end]))

\* parseWhenConditions() with currentIndex = i
parseWhenConditions(ls, i) ==
    IF ~currentLineStartsWith(ls, i, "when ")
    THEN ParseError("Expected 'when' clause", i)
    ELSE
    Bind(whenLoopEnd(ls, i + 1), LAMBDA end :
    Bind(splitByAndPreservingQuotes(
             accumulate(removePrefix(ls[i + 1], whenPrefixRegex), ls, i + 1, end)),
         LAMBDA conditionParts :
        [ok |-> TRUE,
         conditions |-> present([k \in 1..Len(conditionParts) |->
                                    parseCondition(trim(conditionParts[k]))]),
         index |-> end]))

\* parseThenActions() with currentIndex = i
parseThenActions(ls, i) ==
    IF ~currentLineStartsWith(ls, i, "then ")
    THEN ParseError("Expected 'then' clause", i)
    ELSE
    Bind(thenLoopEnd(ls, i + 1), LAMBDA end :
    Bind(splitActions(accumulate(removePrefix(ls[i + 1], thenPrefixRegex), ls, i + 1, end)),
         LAMBDA actionParts :
        [ok |-> TRUE,
         actions |-> present([k \in 1..Len(actionParts) |->
                                 parseAction(trim(actionParts[k]))]),
         index |-> end]))

\* parseRule() with currentIndex = i: the rule (<<rule>>, or <<>> for null) and the new
\* currentIndex, or the error thrown
parseRule(ls, i) ==
    IF ~(i < Len(ls)) \/ ~startsWith(ls[i + 1], "rule ")
    THEN [ok |-> TRUE, rule |-> <<>>, index |-> i + 1]
    ELSE
    Bind(matchAnchored(ls[i + 1], nameRegex), LAMBDA nameMatch :
        IF ~nameMatch.ok THEN ParseError("Invalid rule syntax", i)
        ELSE
        Bind(parseWhenConditions(ls, i + 1), LAMBDA whenConditions :
            IF ~whenConditions.ok THEN whenConditions
            ELSE
            Bind(parseThenActions(ls, whenConditions.index), LAMBDA thenActions :
                IF ~thenActions.ok THEN thenActions
                ELSE [ok |-> TRUE,
                      rule |-> <<[name |-> nameMatch.caps[1],
                                  when |-> whenConditions.conditions,
                                  then |-> thenActions.actions]>>,
                      index |-> thenActions.index])))

\* the lines parse keeps: split on '\n', trimmed, without empty lines and comments
keptLine(line) == Len(line) > 0 /\ ~startsWith(line, "#")

parseLines(text) ==
    Bind(split(text, "\n"), LAMBDA raw :
        SelectSeq([k \in 1..Len(raw) |-> trim(raw[k])], keptLine))

\* the while loop of parse, from currentIndex = i with the rules found so far
RECURSIVE parseLoop(_, _, _)
parseLoop(ls, i, found) ==
    IF ~(i < Len(ls)) THEN [ok |-> TRUE, rules |-> found]
    ELSE Bind(parseRule(ls, i), LAMBDA r :
             IF ~r.ok THEN r ELSE parseLoop(ls, r.index, found \o r.rule))

\* parse(dslText): the rules, or the error thrown
parse(text) == parseLoop(parseLines(text), 0, <<>>)

-----------------------------------------------------------------------------
(* JavaScript values and RegExp *)

\* what a function returns, or the error it throws
Return(v) == [ok |-> TRUE, value |-> v]

Throw(message) == [ok |-> FALSE, error |-> message]

Undefined == [type |-> "undefined"]

StringValue(s) == [type |-> "string", value |-> s]

NumberValue(n) == [type |-> "number", n |-> n]

\* a WorkItemAssignedTo object
AssignedToValue(displayName, uniqueName) ==
    [type |-> "object", displayName |-> displayName, uniqueName |-> uniqueName]

digits == "0123456789"

RECURSIVE numberToString(_)
numberToString(n) ==
    IF n < 10 THEN charAt(digits, n + 1)
    ELSE numberToString(n \div 10) \o charAt(digits, (n % 10) + 1)

\* String(value)
String(v) ==
    CASE v.type = "string" -> v.value
      [] v.type = "number" -> numberToString(v.n)
      [] v.type = "object" -> "[object Object]"
      [] v.type = "undefined" -> "undefined"

\* String.prototype.toLowerCase: the runs <<first, last, step, delta>> of code units
\* above 127 whose lower case is delta further (the data of Unicode 17)
LowerCaseRuns ==
    {<<192, 214, 1, 32>>, <<216, 222, 1, 32>>, <<385, 385, 1, 210>>, <<386, 388, 2, 1>>, <<390, 390, 1, 206>>, <<391, 391, 1, 1>>,
     <<393, 394, 1, 205>>, <<395, 395, 1, 1>>, <<398, 398, 1, 79>>, <<399, 399, 1, 202>>, <<400, 400, 1, 203>>, <<401, 401, 1, 1>>,
     <<403, 403, 1, 205>>, <<404, 404, 1, 207>>, <<406, 406, 1, 211>>, <<407, 407, 1, 209>>, <<408, 408, 1, 1>>, <<412, 412, 1, 211>>,
     <<413, 413, 1, 213>>, <<415, 415, 1, 214>>, <<416, 420, 2, 1>>, <<422, 422, 1, 218>>, <<423, 423, 1, 1>>, <<425, 425, 1, 218>>,
     <<428, 428, 1, 1>>, <<430, 430, 1, 218>>, <<431, 431, 1, 1>>, <<433, 434, 1, 217>>, <<435, 437, 2, 1>>, <<439, 439, 1, 219>>,
     <<440, 440, 1, 1>>, <<444, 444, 1, 1>>, <<452, 452, 1, 2>>, <<453, 453, 1, 1>>, <<455, 455, 1, 2>>, <<456, 456, 1, 1>>,
     <<458, 458, 1, 2>>, <<459, 475, 2, 1>>, <<478, 494, 2, 1>>, <<497, 497, 1, 2>>, <<498, 500, 2, 1>>, <<502, 502, 1, -97>>,
     <<503, 503, 1, -56>>, <<504, 542, 2, 1>>, <<902, 902, 1, 38>>, <<904, 906, 1, 37>>, <<908, 908, 1, 64>>, <<910, 911, 1, 63>>,
     <<913, 929, 1, 32>>, <<932, 939, 1, 32>>, <<975, 975, 1, 8>>, <<984, 1006, 2, 1>>, <<1012, 1012, 1, -60>>, <<1015, 1015, 1, 1>>,
     <<1017, 1017, 1, -7>>, <<1018, 1018, 1, 1>>, <<1021, 1023, 1, -130>>, <<1120, 1152, 2, 1>>, <<1162, 1214, 2, 1>>, <<1216, 1216, 1, 15>>,
     <<1217, 1229, 2, 1>>, <<1232, 1326, 2, 1>>, <<4256, 4293, 1, 7264>>, <<4295, 4295, 1, 7264>>, <<4301, 4301, 1, 7264>>, <<5024, 5103, 1, 38864>>,
     <<5104, 5109, 1, 8>>, <<7305, 7305, 1, 1>>, <<7312, 7354, 1, -3008>>, <<7357, 7359, 1, -3008>>, <<7680, 7828, 2, 1>>, <<7838, 7838, 1, -7615>>,
     <<7840, 7934, 2, 1>>, <<8072, 8079, 1, -8>>, <<8088, 8095, 1, -8>>, <<8104, 8111, 1, -8>>, <<8120, 8121, 1, -8>>, <<8122, 8123, 1, -74>>,
     <<8124, 8124, 1, -9>>, <<8136, 8139, 1, -86>>, <<8140, 8140, 1, -9>>, <<8152, 8153, 1, -8>>, <<8154, 8155, 1, -100>>, <<8168, 8169, 1, -8>>,
     <<8170, 8171, 1, -112>>, <<8172, 8172, 1, -7>>, <<8184, 8185, 1, -128>>, <<8186, 8187, 1, -126>>, <<8188, 8188, 1, -9>>, <<8579, 8579, 1, 1>>,
     <<9398, 9423, 1, 26>>, <<11392, 11490, 2, 1>>, <<11499, 11501, 2, 1>>, <<11506, 11506, 1, 1>>, <<42624, 42650, 2, 1>>, <<42878, 42886, 2, 1>>,
     <<42891, 42891, 1, 1>>, <<42893, 42893, 1, -42280>>, <<42896, 42898, 2, 1>>, <<42902, 42920, 2, 1>>, <<42922, 42922, 1, -42308>>, <<42923, 42923, 1, -42319>>,
     <<42924, 42924, 1, -42315>>, <<42925, 42925, 1, -42305>>, <<42926, 42926, 1, -42308>>, <<42928, 42928, 1, -42258>>, <<42929, 42929, 1, -42282>>, <<42930, 42930, 1, -42261>>,
     <<42931, 42931, 1, 928>>, <<42932, 42946, 2, 1>>, <<42948, 42948, 1, -48>>, <<42949, 42949, 1, -42307>>, <<42950, 42950, 1, -35384>>, <<42951, 42953, 2, 1>>,
     <<42955, 42955, 1, -42343>>, <<42956, 42970, 2, 1>>, <<42972, 42972, 1, -42561>>, <<42997, 42997, 1, 1>>}

\* the ranges of the code units of the cased letters that are not case-ignorable
CasedLetterRanges ==
    {<<65, 90>>, <<97, 122>>, <<170, 170>>, <<181, 181>>, <<186, 186>>, <<192, 214>>, <<216, 246>>, <<248, 442>>,
     <<444, 447>>, <<452, 659>>, <<662, 687>>, <<902, 902>>, <<904, 906>>, <<908, 908>>, <<910, 929>>, <<931, 1013>>,
     <<1015, 1153>>, <<1162, 1327>>, <<1376, 1416>>, <<4256, 4293>>, <<4295, 4295>>, <<4301, 4301>>, <<4304, 4346>>, <<4349, 4351>>,
     <<5024, 5109>>, <<5112, 5117>>, <<7296, 7306>>, <<7312, 7354>>, <<7357, 7359>>, <<7545, 7578>>, <<7680, 7957>>, <<8064, 8116>>,
     <<8118, 8124>>, <<8126, 8126>>, <<8130, 8132>>, <<8134, 8140>>, <<8144, 8147>>, <<8150, 8155>>, <<8160, 8172>>, <<8178, 8180>>,
     <<8182, 8188>>, <<8579, 8580>>, <<9398, 9449>>, <<11390, 11492>>, <<11499, 11502>>, <<11506, 11507>>, <<42624, 42651>>, <<42865, 42887>>,
     <<42891, 42894>>, <<42896, 42972>>, <<42997, 42998>>, <<43002, 43002>>, <<43888, 43967>>}

\* the ranges of the code units of the case-ignorable characters
CaseIgnorableRanges ==
    {<<39, 39>>, <<46, 46>>, <<58, 58>>, <<94, 94>>, <<96, 96>>, <<168, 168>>, <<173, 173>>, <<175, 175>>,
     <<180, 180>>, <<183, 184>>, <<688, 879>>, <<900, 901>>, <<903, 903>>, <<1155, 1161>>, <<1425, 1469>>, <<1471, 1471>>,
     <<1473, 1474>>, <<1476, 1477>>, <<1479, 1479>>, <<1524, 1524>>, <<1750, 1757>>, <<1759, 1768>>, <<1770, 1773>>, <<1958, 1968>>,
     <<2027, 2037>>, <<2042, 2042>>, <<2045, 2045>>, <<2184, 2184>>, <<2192, 2193>>, <<2199, 2207>>, <<2249, 2306>>, <<2433, 2433>>,
     <<2492, 2492>>, <<2497, 2500>>, <<2509, 2509>>, <<2530, 2531>>, <<2558, 2558>>, <<2689, 2690>>, <<2748, 2748>>, <<2753, 2757>>,
     <<2759, 2760>>, <<2765, 2765>>, <<2786, 2787>>, <<2810, 2815>>, <<2946, 2946>>, <<3008, 3008>>, <<3021, 3021>>, <<3201, 3201>>,
     <<3260, 3260>>, <<3263, 3263>>, <<3270, 3270>>, <<3276, 3277>>, <<3298, 3299>>, <<3457, 3457>>, <<3530, 3530>>, <<3538, 3540>>,
     <<3542, 3542>>, <<3761, 3761>>, <<3764, 3772>>, <<3782, 3782>>, <<3784, 3790>>, <<3968, 3972>>, <<3974, 3975>>, <<3981, 3991>>,
     <<3993, 4028>>, <<4038, 4038>>, <<4226, 4226>>, <<4229, 4230>>, <<4237, 4237>>, <<4253, 4253>>, <<4348, 4348>>, <<6068, 6069>>,
     <<6071, 6077>>, <<6086, 6086>>, <<6089, 6099>>, <<6103, 6103>>, <<6109, 6109>>, <<6277, 6278>>, <<6313, 6313>>, <<6823, 6823>>,
     <<6832, 6877>>, <<6880, 6891>>, <<7040, 7041>>, <<7074, 7077>>, <<7080, 7081>>, <<7083, 7085>>, <<7142, 7142>>, <<7144, 7145>>,
     <<7149, 7149>>, <<7151, 7153>>, <<7376, 7378>>, <<7380, 7392>>, <<7394, 7400>>, <<7405, 7405>>, <<7412, 7412>>, <<7416, 7417>>,
     <<7579, 7679>>, <<8125, 8125>>, <<8127, 8129>>, <<8141, 8143>>, <<8157, 8159>>, <<8173, 8175>>, <<8189, 8190>>, <<8336, 8348>>,
     <<8400, 8432>>, <<11503, 11505>>, <<11744, 11775>>, <<12441, 12446>>, <<12540, 12542>>, <<42232, 42237>>, <<42652, 42655>>, <<42736, 42737>>,
     <<42888, 42890>>, <<42993, 42996>>, <<43000, 43001>>, <<43204, 43205>>, <<43232, 43249>>, <<43263, 43263>>, <<43392, 43394>>, <<43443, 43443>>,
     <<43446, 43449>>, <<43452, 43453>>, <<43471, 43471>>, <<43493, 43494>>, <<43696, 43696>>, <<43698, 43700>>, <<43703, 43704>>, <<43710, 43711>>,
     <<43713, 43713>>, <<43741, 43741>>, <<43756, 43757>>, <<43763, 43764>>, <<43766, 43766>>, <<44005, 44005>>, <<44008, 44008>>, <<44013, 44013>>,
     <<64434, 64450>>, <<65279, 65279>>, <<65438, 65439>>, <<65507, 65507>>, <<65529, 65531>>}

\* whether code lies in one of the ranges <<first, last>>
inRanges(code, ranges) == \E r \in ranges : r[1] <= code /\ code <= r[2]

\* whether the characters from..to of s are all case-ignorable
allIgnorable(s, from, to) ==
    \A i \in from..to : inRanges(charCode(charAt(s, i)), CaseIgnorableRanges)

\* Final_Sigma: the capital sigma at k follows a cased letter and no cased letter
\* follows it, case-ignorable characters aside
isFinalSigma(s, k) ==
    /\ \E j \in 1..(k - 1) : /\ inRanges(charCode(charAt(s, j)), CasedLetterRanges)
                             /\ allIgnorable(s, j + 1, k - 1)
    /\ ~\E j \in (k + 1)..Len(s) : /\ inRanges(charCode(charAt(s, j)), CasedLetterRanges)
                                   /\ allIgnorable(s, k + 1, j - 1)

\* the code unit of the lower case of the character at k of s
lowerCode(s, k) ==
    Bind(charCode(charAt(s, k)), LAMBDA code :
        IF code < 128 THEN (IF code \in 65..90 THEN code + 32 ELSE code)
        ELSE IF code = 931 THEN (IF isFinalSigma(s, k) THEN 962 ELSE 963)
        ELSE Bind({r \in LowerCaseRuns :
                      r[1] <= code /\ code <= r[2] /\ (code - r[1]) % r[3] = 0},
                  LAMBDA runs :
                 IF runs = {} THEN code ELSE code + (CHOOSE r \in runs : TRUE)[4]))

\* String.prototype.toLowerCase, as the code units of the result: the lower case of a
\* character of the model may be a character that no string of the model holds
toLowerCase(s) == [k \in 1..Len(s) |-> lowerCode(s, k)]

\* new RegExp(pattern), no flags: the pattern syntax of ECMAScript with the
\* extensions of its Annex B, as V8 parses it (no duplicate group names, no modifiers)

\* the characters of str
charactersIn(str) == {charAt(str, k) : k \in 1..Len(str)}

DigitCharacters == charactersIn("0123456789")

OctalDigits == charactersIn("01234567")

HexDigits == charactersIn("0123456789abcdefABCDEF")

Letters == charactersIn("abcdefghijklmnopqrstuvwxyzABCDEFGHIJKLMNOPQRSTUVWXYZ")

\* the value of one hexadecimal digit
hexDigitValue(c) ==
    Bind(charCode(c), LAMBDA code :
        IF code <= 57 THEN code - 48 ELSE IF code >= 97 THEN code - 87 ELSE code - 55)

\* the number written by the characters from..to of s in the given base, which stays
\* at 2147483647 where it would pass it
RECURSIVE numberAt(_, _, _, _)
numberAt(s, from, to, base) ==
    IF to < from THEN 0
    ELSE Bind(numberAt(s, from, to - 1, base), LAMBDA above :
         Bind(hexDigitValue(charAt(s, to)), LAMBDA digit :
             IF above > (2147483647 - digit) \div base
             THEN 2147483647
             ELSE (above * base) + digit))

\* the number of characters from position i on that are in S, at most most
runOf(s, i, S, most) ==
    Bind({k \in i..(i + most - 1) : peek(s, k) \notin S}, LAMBDA bad : Min(bad \cup {i + most}) - i)

\* A character class: the characters with the code units of cs, or all but those
\* when neg
Class(neg, cs) == [neg |-> neg, cs |-> cs]

classUnion(a, b) ==
    IF a.neg /\ b.neg THEN Class(TRUE, a.cs \cap b.cs)
    ELSE IF a.neg THEN Class(TRUE, a.cs \ b.cs)
    ELSE IF b.neg THEN Class(TRUE, b.cs \ a.cs)
    ELSE Class(FALSE, a.cs \cup b.cs)

classNode(class) == IF class.neg THEN NotInCodes(class.cs) ELSE InCodes(class.cs)

\* the class of the character with the given code
codeClass(code) == Class(FALSE, {code})

ClassEscapes == {"d", "D", "w", "W", "s", "S"}

\* \d \D \w \W \s \S
classEscape(e) ==
    CASE e = "d" -> Class(FALSE, 48..57)
      [] e = "D" -> Class(TRUE, 48..57)
      [] e = "w" -> Class(FALSE, WordCharacters)
      [] e = "W" -> Class(TRUE, WordCharacters)
      [] e = "s" -> Class(FALSE, WhiteSpace)
      [] e = "S" -> Class(TRUE, WhiteSpace)

\* CharacterEscape: the code of the character written by the escape whose first
\* character after the backslash is at i, and the position after it
characterEscape(p, i, inClass) ==
    LET e == charAt(p, i)
        octal == runOf(p, i, OctalDigits, IF e \in charactersIn("0123") THEN 3 ELSE 2)
    IN  CASE e = "t" -> [code |-> 9, i |-> i + 1]
          [] e = "n" -> [code |-> 10, i |-> i + 1]
          [] e = "v" -> [code |-> 11, i |-> i + 1]
          [] e = "f" -> [code |-> 12, i |-> i + 1]
          [] e = "r" -> [code |-> 13, i |-> i + 1]
          [] e = "c" ->
               \* a control letter; otherwise the backslash stands for itself
               IF peek(p, i + 1) \in Letters
                  \/ (inClass /\ peek(p, i + 1) \in DigitCharacters \cup {"_"})
               THEN [code |-> charCode(peek(p, i + 1)) % 32, i |-> i + 2]
               ELSE [code |-> 92, i |-> i]
          [] e = "x" ->
               IF runOf(p, i + 1, HexDigits, 2) = 2
               THEN [code |-> numberAt(p, i + 1, i + 2, 16), i |-> i + 3]
               ELSE [code |-> charCode(e), i |-> i + 1]
          [] e = "u" ->
               IF runOf(p, i + 1, HexDigits, 4) = 4
               THEN [code |-> numberAt(p, i + 1, i + 4, 16), i |-> i + 5]
               ELSE [code |-> charCode(e), i |-> i + 1]
          [] e \in OctalDigits ->
               [code |-> numberAt(p, i, i + octal - 1, 8), i |-> i + octal]
          [] OTHER -> [code |-> charCode(e), i |-> i + 1]

\* ClassAtom at i: a class (set TRUE) or one character's code, and the position
\* after; named: the pattern has a named group, and then \k is no identity escape
classAtom(p, i, named) ==
    IF i > Len(p) THEN Throw("SyntaxError: Unterminated character class")
    ELSE IF charAt(p, i) # "\\"
    THEN [ok |-> TRUE, set |-> FALSE, code |-> charCode(charAt(p, i)), i |-> i + 1]
    ELSE IF i = Len(p) THEN Throw("SyntaxError: \\ at end of pattern")
    ELSE IF charAt(p, i + 1) \in ClassEscapes
    THEN [ok |-> TRUE, set |-> TRUE, class |-> classEscape(charAt(p, i + 1)), i |-> i + 2]
    ELSE IF charAt(p, i + 1) = "b"
    THEN [ok |-> TRUE, set |-> FALSE, code |-> 8, i |-> i + 2]
    ELSE IF charAt(p, i + 1) = "k" /\ named THEN Throw("SyntaxError: Invalid escape")
    ELSE [ok |-> TRUE, set |-> FALSE] @@ characterEscape(p, i + 1, TRUE)

atomClass(a) == IF a.set THEN a.class ELSE codeClass(a.code)

\* ClassRanges from i to the closing bracket: the class, and the position after it
RECURSIVE classRanges(_, _, _, _)
classRanges(p, i, class, named) ==
    IF i > Len(p) THEN Throw("SyntaxError: Unterminated character class")
    ELSE IF charAt(p, i) = "]" THEN [ok |-> TRUE, class |-> class, i |-> i + 1]
    ELSE Bind(classAtom(p, i, named), LAMBDA a :
        IF ~a.ok THEN a
        ELSE IF peek(p, a.i) = "-" /\ peek(p, a.i + 1) \notin {"]", ""}
        THEN Bind(classAtom(p, a.i + 1, named), LAMBDA b :
                 IF ~b.ok THEN b
                 ELSE IF a.set \/ b.set
                 THEN \* no range with a class at an end: the hyphen stands for itself
                      classRanges(p, b.i,
                          classUnion(class, classUnion(atomClass(a),
                              classUnion(codeClass(45), atomClass(b)))), named)
                 ELSE IF a.code > b.code
                 THEN Throw("SyntaxError: Range out of order in character class")
                 ELSE classRanges(p, b.i,
                          classUnion(class, Class(FALSE, a.code..b.code)), named))
        ELSE classRanges(p, a.i, classUnion(class, atomClass(a)), named))

\* a parsed piece of the pattern: its nodes, the position after it, the number of
\* capture groups opened so far, and what becomes of a quantifier that follows it:
\* "taken", "unread" (an assertion: the quantifier is read as the next term) or
\* "refused" (a lookbehind)
Parsed(nodes, i, g, quantifier) ==
    [ok |-> TRUE, nodes |-> nodes, i |-> i, g |-> g, quantifier |-> quantifier]

\* CharacterClass at i
characterClass(p, i, g, named) ==
    LET negated == peek(p, i + 1) = "^"
    IN  Bind(classRanges(p, IF negated THEN i + 2 ELSE i + 1, Class(FALSE, {}), named),
             LAMBDA r :
            IF ~r.ok THEN r
            ELSE Parsed(<<classNode(Class(r.class.neg # negated, r.class.cs))>>, r.i, g,
                        "taken"))

\* the ranges of the code points above 127 that have the property ID_Start (the data
\* of Unicode 17)
IdStartRanges ==
    {<<170, 170>>, <<181, 181>>, <<186, 186>>, <<192, 214>>, <<216, 246>>, <<248, 705>>, <<710, 721>>, <<736, 740>>,
     <<748, 748>>, <<750, 750>>, <<880, 884>>, <<886, 887>>, <<890, 893>>, <<895, 895>>, <<902, 902>>, <<904, 906>>,
     <<908, 908>>, <<910, 929>>, <<931, 1013>>, <<1015, 1153>>, <<1162, 1327>>, <<1329, 1366>>, <<1369, 1369>>, <<1376, 1416>>,
     <<1488, 1514>>, <<1519, 1522>>, <<1568, 1610>>, <<1646, 1647>>, <<1649, 1747>>, <<1749, 1749>>, <<1765, 1766>>, <<1774, 1775>>,
     <<1786, 1788>>, <<1791, 1791>>, <<1808, 1808>>, <<1810, 1839>>, <<1869, 1957>>, <<1969, 1969>>, <<1994, 2026>>, <<2036, 2037>>,
     <<2042, 2042>>, <<2048, 2069>>, <<2074, 2074>>, <<2084, 2084>>, <<2088, 2088>>, <<2112, 2136>>, <<2144, 2154>>, <<2160, 2183>>,
     <<2185, 2191>>, <<2208, 2249>>, <<2308, 2361>>, <<2365, 2365>>, <<2384, 2384>>, <<2392, 2401>>, <<2417, 2432>>, <<2437, 2444>>,
     <<2447, 2448>>, <<2451, 2472>>, <<2474, 2480>>, <<2482, 2482>>, <<2486, 2489>>, <<2493, 2493>>, <<2510, 2510>>, <<2524, 2525>>,
     <<2527, 2529>>, <<2544, 2545>>, <<2556, 2556>>, <<2565, 2570>>, <<2575, 2576>>, <<2579, 2600>>, <<2602, 2608>>, <<2610, 2611>>,
     <<2613, 2614>>, <<2616, 2617>>, <<2649, 2652>>, <<2654, 2654>>, <<2674, 2676>>, <<2693, 2701>>, <<2703, 2705>>, <<2707, 2728>>,
     <<2730, 2736>>, <<2738, 2739>>, <<2741, 2745>>, <<2749, 2749>>, <<2768, 2768>>, <<2784, 2785>>, <<2809, 2809>>, <<2821, 2828>>,
     <<2831, 2832>>, <<2835, 2856>>, <<2858, 2864>>, <<2866, 2867>>, <<2869, 2873>>, <<2877, 2877>>, <<2908, 2909>>, <<2911, 2913>>,
     <<2929, 2929>>, <<2947, 2947>>, <<2949, 2954>>, <<2958, 2960>>, <<2962, 2965>>, <<2969, 2970>>, <<2972, 2972>>, <<2974, 2975>>,
     <<2979, 2980>>, <<2984, 2986>>, <<2990, 3001>>, <<3024, 3024>>, <<3077, 3084>>, <<3086, 3088>>, <<3090, 3112>>, <<3114, 3129>>,
     <<3133, 3133>>, <<3160, 3162>>, <<3164, 3165>>, <<3168, 3169>>, <<3200, 3200>>, <<3205, 3212>>, <<3214, 3216>>, <<3218, 3240>>,
     <<3242, 3251>>, <<3253, 3257>>, <<3261, 3261>>, <<3292, 3294>>, <<3296, 3297>>, <<3313, 3314>>, <<3332, 3340>>, <<3342, 3344>>,
     <<3346, 3386>>, <<3389, 3389>>, <<3406, 3406>>, <<3412, 3414>>, <<3423, 3425>>, <<3450, 3455>>, <<3461, 3478>>, <<3482, 3505>>,
     <<3507, 3515>>, <<3517, 3517>>, <<3520, 3526>>, <<3585, 3632>>, <<3634, 3635>>, <<3648, 3654>>, <<3713, 3714>>, <<3716, 3716>>,
     <<3718, 3722>>, <<3724, 3747>>, <<3749, 3749>>, <<3751, 3760>>, <<3762, 3763>>, <<3773, 3773>>, <<3776, 3780>>, <<3782, 3782>>,
     <<3804, 3807>>, <<3840, 3840>>, <<3904, 3911>>, <<3913, 3948>>, <<3976, 3980>>, <<4096, 4138>>, <<4159, 4159>>, <<4176, 4181>>,
     <<4186, 4189>>, <<4193, 4193>>, <<4197, 4198>>, <<4206, 4208>>, <<4213, 4225>>, <<4238, 4238>>, <<4256, 4293>>, <<4295, 4295>>,
     <<4301, 4301>>, <<4304, 4346>>, <<4348, 4680>>, <<4682, 4685>>, <<4688, 4694>>, <<4696, 4696>>, <<4698, 4701>>, <<4704, 4744>>,
     <<4746, 4749>>, <<4752, 4784>>, <<4786, 4789>>, <<4792, 4798>>, <<4800, 4800>>, <<4802, 4805>>, <<4808, 4822>>, <<4824, 4880>>,
     <<4882, 4885>>, <<4888, 4954>>, <<4992, 5007>>, <<5024, 5109>>, <<5112, 5117>>, <<5121, 5740>>, <<5743, 5759>>, <<5761, 5786>>,
     <<5792, 5866>>, <<5870, 5880>>, <<5888, 5905>>, <<5919, 5937>>, <<5952, 5969>>, <<5984, 5996>>, <<5998, 6000>>, <<6016, 6067>>,
     <<6103, 6103>>, <<6108, 6108>>, <<6176, 6264>>, <<6272, 6312>>, <<6314, 6314>>, <<6320, 6389>>, <<6400, 6430>>, <<6480, 6509>>,
     <<6512, 6516>>, <<6528, 6571>>, <<6576, 6601>>, <<6656, 6678>>, <<6688, 6740>>, <<6823, 6823>>, <<6917, 6963>>, <<6981, 6988>>,
     <<7043, 7072>>, <<7086, 7087>>, <<7098, 7141>>, <<7168, 7203>>, <<7245, 7247>>, <<7258, 7293>>, <<7296, 7306>>, <<7312, 7354>>,
     <<7357, 7359>>, <<7401, 7404>>, <<7406, 7411>>, <<7413, 7414>>, <<7418, 7418>>, <<7424, 7615>>, <<7680, 7957>>, <<7960, 7965>>,
     <<7968, 8005>>, <<8008, 8013>>, <<8016, 8023>>, <<8025, 8025>>, <<8027, 8027>>, <<8029, 8029>>, <<8031, 8061>>, <<8064, 8116>>,
     <<8118, 8124>>, <<8126, 8126>>, <<8130, 8132>>, <<8134, 8140>>, <<8144, 8147>>, <<8150, 8155>>, <<8160, 8172>>, <<8178, 8180>>,
     <<8182, 8188>>, <<8305, 8305>>, <<8319, 8319>>, <<8336, 8348>>, <<8450, 8450>>, <<8455, 8455>>, <<8458, 8467>>, <<8469, 8469>>,
     <<8472, 8477>>, <<8484, 8484>>, <<8486, 8486>>, <<8488, 8488>>, <<8490, 8505>>, <<8508, 8511>>, <<8517, 8521>>, <<8526, 8526>>,
     <<8544, 8584>>, <<11264, 11492>>, <<11499, 11502>>, <<11506, 11507>>, <<11520, 11557>>, <<11559, 11559>>, <<11565, 11565>>, <<11568, 11623>>,
     <<11631, 11631>>, <<11648, 11670>>, <<11680, 11686>>, <<11688, 11694>>, <<11696, 11702>>, <<11704, 11710>>, <<11712, 11718>>, <<11720, 11726>>,
     <<11728, 11734>>, <<11736, 11742>>, <<12293, 12295>>, <<12321, 12329>>, <<12337, 12341>>, <<12344, 12348>>, <<12353, 12438>>, <<12443, 12447>>,
     <<12449, 12538>>, <<12540, 12543>>, <<12549, 12591>>, <<12593, 12686>>, <<12704, 12735>>, <<12784, 12799>>, <<13312, 19903>>, <<19968, 42124>>,
     <<42192, 42237>>, <<42240, 42508>>, <<42512, 42527>>, <<42538, 42539>>, <<42560, 42606>>, <<42623, 42653>>, <<42656, 42735>>, <<42775, 42783>>,
     <<42786, 42888>>, <<42891, 42972>>, <<42993, 43009>>, <<43011, 43013>>, <<43015, 43018>>, <<43020, 43042>>, <<43072, 43123>>, <<43138, 43187>>,
     <<43250, 43255>>, <<43259, 43259>>, <<43261, 43262>>, <<43274, 43301>>, <<43312, 43334>>, <<43360, 43388>>, <<43396, 43442>>, <<43471, 43471>>,
     <<43488, 43492>>, <<43494, 43503>>, <<43514, 43518>>, <<43520, 43560>>, <<43584, 43586>>, <<43588, 43595>>, <<43616, 43638>>, <<43642, 43642>>,
     <<43646, 43695>>, <<43697, 43697>>, <<43701, 43702>>, <<43705, 43709>>, <<43712, 43712>>, <<43714, 43714>>, <<43739, 43741>>, <<43744, 43754>>,
     <<43762, 43764>>, <<43777, 43782>>, <<43785, 43790>>, <<43793, 43798>>, <<43808, 43814>>, <<43816, 43822>>, <<43824, 43866>>, <<43868, 43881>>,
     <<43888, 44002>>, <<44032, 55203>>, <<55216, 55238>>, <<55243, 55291>>, <<63744, 64109>>, <<64112, 64217>>, <<64256, 64262>>, <<64275, 64279>>,
     <<64285, 64285>>, <<64287, 64296>>, <<64298, 64310>>, <<64312, 64316>>, <<64318, 64318>>, <<64320, 64321>>, <<64323, 64324>>, <<64326, 64433>>,
     <<64467, 64829>>, <<64848, 64911>>, <<64914, 64967>>, <<65008, 65019>>, <<65136, 65140>>, <<65142, 65276>>, <<65313, 65338>>, <<65345, 65370>>,
     <<65382, 65470>>, <<65474, 65479>>, <<65482, 65487>>, <<65490, 65495>>, <<65498, 65500>>, <<65536, 65547>>, <<65549, 65574>>, <<65576, 65594>>,
     <<65596, 65597>>, <<65599, 65613>>, <<65616, 65629>>, <<65664, 65786>>, <<65856, 65908>>, <<66176, 66204>>, <<66208, 66256>>, <<66304, 66335>>,
     <<66349, 66378>>, <<66384, 66421>>, <<66432, 66461>>, <<66464, 66499>>, <<66504, 66511>>, <<66513, 66517>>, <<66560, 66717>>, <<66736, 66771>>,
     <<66776, 66811>>, <<66816, 66855>>, <<66864, 66915>>, <<66928, 66938>>, <<66940, 66954>>, <<66956, 66962>>, <<66964, 66965>>, <<66967, 66977>>,
     <<66979, 66993>>, <<66995, 67001>>, <<67003, 67004>>, <<67008, 67059>>, <<67072, 67382>>, <<67392, 67413>>, <<67424, 67431>>, <<67456, 67461>>,
     <<67463, 67504>>, <<67506, 67514>>, <<67584, 67589>>, <<67592, 67592>>, <<67594, 67637>>, <<67639, 67640>>, <<67644, 67644>>, <<67647, 67669>>,
     <<67680, 67702>>, <<67712, 67742>>, <<67808, 67826>>, <<67828, 67829>>, <<67840, 67861>>, <<67872, 67897>>, <<67904, 67929>>, <<67968, 68023>>,
     <<68030, 68031>>, <<68096, 68096>>, <<68112, 68115>>, <<68117, 68119>>, <<68121, 68149>>, <<68192, 68220>>, <<68224, 68252>>, <<68288, 68295>>,
     <<68297, 68324>>, <<68352, 68405>>, <<68416, 68437>>, <<68448, 68466>>, <<68480, 68497>>, <<68608, 68680>>, <<68736, 68786>>, <<68800, 68850>>,
     <<68864, 68899>>, <<68938, 68965>>, <<68975, 68997>>, <<69248, 69289>>, <<69296, 69297>>, <<69314, 69319>>, <<69376, 69404>>, <<69415, 69415>>,
     <<69424, 69445>>, <<69488, 69505>>, <<69552, 69572>>, <<69600, 69622>>, <<69635, 69687>>, <<69745, 69746>>, <<69749, 69749>>, <<69763, 69807>>,
     <<69840, 69864>>, <<69891, 69926>>, <<69956, 69956>>, <<69959, 69959>>, <<69968, 70002>>, <<70006, 70006>>, <<70019, 70066>>, <<70081, 70084>>,
     <<70106, 70106>>, <<70108, 70108>>, <<70144, 70161>>, <<70163, 70187>>, <<70207, 70208>>, <<70272, 70278>>, <<70280, 70280>>, <<70282, 70285>>,
     <<70287, 70301>>, <<70303, 70312>>, <<70320, 70366>>, <<70405, 70412>>, <<70415, 70416>>, <<70419, 70440>>, <<70442, 70448>>, <<70450, 70451>>,
     <<70453, 70457>>, <<70461, 70461>>, <<70480, 70480>>, <<70493, 70497>>, <<70528, 70537>>, <<70539, 70539>>, <<70542, 70542>>, <<70544, 70581>>,
     <<70583, 70583>>, <<70609, 70609>>, <<70611, 70611>>, <<70656, 70708>>, <<70727, 70730>>, <<70751, 70753>>, <<70784, 70831>>, <<70852, 70853>>,
     <<70855, 70855>>, <<71040, 71086>>, <<71128, 71131>>, <<71168, 71215>>, <<71236, 71236>>, <<71296, 71338>>, <<71352, 71352>>, <<71424, 71450>>,
     <<71488, 71494>>, <<71680, 71723>>, <<71840, 71903>>, <<71935, 71942>>, <<71945, 71945>>, <<71948, 71955>>, <<71957, 71958>>, <<71960, 71983>>,
     <<71999, 71999>>, <<72001, 72001>>, <<72096, 72103>>, <<72106, 72144>>, <<72161, 72161>>, <<72163, 72163>>, <<72192, 72192>>, <<72203, 72242>>,
     <<72250, 72250>>, <<72272, 72272>>, <<72284, 72329>>, <<72349, 72349>>, <<72368, 72440>>, <<72640, 72672>>, <<72704, 72712>>, <<72714, 72750>>,
     <<72768, 72768>>, <<72818, 72847>>, <<72960, 72966>>, <<72968, 72969>>, <<72971, 73008>>, <<73030, 73030>>, <<73056, 73061>>, <<73063, 73064>>,
     <<73066, 73097>>, <<73112, 73112>>, <<73136, 73179>>, <<73440, 73458>>, <<73474, 73474>>, <<73476, 73488>>, <<73490, 73523>>, <<73648, 73648>>,
     <<73728, 74649>>, <<74752, 74862>>, <<74880, 75075>>, <<77712, 77808>>, <<77824, 78895>>, <<78913, 78918>>, <<78944, 82938>>, <<82944, 83526>>,
     <<90368, 90397>>, <<92160, 92728>>, <<92736, 92766>>, <<92784, 92862>>, <<92880, 92909>>, <<92928, 92975>>, <<92992, 92995>>, <<93027, 93047>>,
     <<93053, 93071>>, <<93504, 93548>>, <<93760, 93823>>, <<93856, 93880>>, <<93883, 93907>>, <<93952, 94026>>, <<94032, 94032>>, <<94099, 94111>>,
     <<94176, 94177>>, <<94179, 94179>>, <<94194, 94198>>, <<94208, 101589>>, <<101631, 101662>>, <<101760, 101874>>, <<110576, 110579>>, <<110581, 110587>>,
     <<110589, 110590>>, <<110592, 110882>>, <<110898, 110898>>, <<110928, 110930>>, <<110933, 110933>>, <<110948, 110951>>, <<110960, 111355>>, <<113664, 113770>>,
     <<113776, 113788>>, <<113792, 113800>>, <<113808, 113817>>, <<119808, 119892>>, <<119894, 119964>>, <<119966, 119967>>, <<119970, 119970>>, <<119973, 119974>>,
     <<119977, 119980>>, <<119982, 119993>>, <<119995, 119995>>, <<119997, 120003>>, <<120005, 120069>>, <<120071, 120074>>, <<120077, 120084>>, <<120086, 120092>>,
     <<120094, 120121>>, <<120123, 120126>>, <<120128, 120132>>, <<120134, 120134>>, <<120138, 120144>>, <<120146, 120485>>, <<120488, 120512>>, <<120514, 120538>>,
     <<120540, 120570>>, <<120572, 120596>>, <<120598, 120628>>, <<120630, 120654>>, <<120656, 120686>>, <<120688, 120712>>, <<120714, 120744>>, <<120746, 120770>>,
     <<120772, 120779>>, <<122624, 122654>>, <<122661, 122666>>, <<122928, 122989>>, <<123136, 123180>>, <<123191, 123197>>, <<123214, 123214>>, <<123536, 123565>>,
     <<123584, 123627>>, <<124112, 124139>>, <<124368, 124397>>, <<124400, 124400>>, <<124608, 124638>>, <<124640, 124642>>, <<124644, 124645>>, <<124647, 124653>>,
     <<124656, 124660>>, <<124670, 124671>>, <<124896, 124902>>, <<124904, 124907>>, <<124909, 124910>>, <<124912, 124926>>, <<124928, 125124>>, <<125184, 125251>>,
     <<125259, 125259>>, <<126464, 126467>>, <<126469, 126495>>, <<126497, 126498>>, <<126500, 126500>>, <<126503, 126503>>, <<126505, 126514>>, <<126516, 126519>>,
     <<126521, 126521>>, <<126523, 126523>>, <<126530, 126530>>, <<126535, 126535>>, <<126537, 126537>>, <<126539, 126539>>, <<126541, 126543>>, <<126545, 126546>>,
     <<126548, 126548>>, <<126551, 126551>>, <<126553, 126553>>, <<126555, 126555>>, <<126557, 126557>>, <<126559, 126559>>, <<126561, 126562>>, <<126564, 126564>>,
     <<126567, 126570>>, <<126572, 126578>>, <<126580, 126583>>, <<126585, 126588>>, <<126590, 126590>>, <<126592, 126601>>, <<126603, 126619>>, <<126625, 126627>>,
     <<126629, 126633>>, <<126635, 126651>>, <<131072, 173791>>, <<173824, 178205>>, <<178208, 183981>>, <<183984, 191456>>, <<191472, 192093>>, <<194560, 195101>>,
     <<196608, 201546>>, <<201552, 210041>>}

\* the ranges of the code points above 127 that have the property ID_Continue and not
\* ID_Start
IdContinueRanges ==
    {<<183, 183>>, <<768, 879>>, <<903, 903>>, <<1155, 1159>>, <<1425, 1469>>, <<1471, 1471>>, <<1473, 1474>>, <<1476, 1477>>,
     <<1479, 1479>>, <<1552, 1562>>, <<1611, 1641>>, <<1648, 1648>>, <<1750, 1756>>, <<1759, 1764>>, <<1767, 1768>>, <<1770, 1773>>,
     <<1776, 1785>>, <<1809, 1809>>, <<1840, 1866>>, <<1958, 1968>>, <<1984, 1993>>, <<2027, 2035>>, <<2045, 2045>>, <<2070, 2073>>,
     <<2075, 2083>>, <<2085, 2087>>, <<2089, 2093>>, <<2137, 2139>>, <<2199, 2207>>, <<2250, 2273>>, <<2275, 2307>>, <<2362, 2364>>,
     <<2366, 2383>>, <<2385, 2391>>, <<2402, 2403>>, <<2406, 2415>>, <<2433, 2435>>, <<2492, 2492>>, <<2494, 2500>>, <<2503, 2504>>,
     <<2507, 2509>>, <<2519, 2519>>, <<2530, 2531>>, <<2534, 2543>>, <<2558, 2558>>, <<2561, 2563>>, <<2620, 2620>>, <<2622, 2626>>,
     <<2631, 2632>>, <<2635, 2637>>, <<2641, 2641>>, <<2662, 2673>>, <<2677, 2677>>, <<2689, 2691>>, <<2748, 2748>>, <<2750, 2757>>,
     <<2759, 2761>>, <<2763, 2765>>, <<2786, 2787>>, <<2790, 2799>>, <<2810, 2815>>, <<2817, 2819>>, <<2876, 2876>>, <<2878, 2884>>,
     <<2887, 2888>>, <<2891, 2893>>, <<2901, 2903>>, <<2914, 2915>>, <<2918, 2927>>, <<2946, 2946>>, <<3006, 3010>>, <<3014, 3016>>,
     <<3018, 3021>>, <<3031, 3031>>, <<3046, 3055>>, <<3072, 3076>>, <<3132, 3132>>, <<3134, 3140>>, <<3142, 3144>>, <<3146, 3149>>,
     <<3157, 3158>>, <<3170, 3171>>, <<3174, 3183>>, <<3201, 3203>>, <<3260, 3260>>, <<3262, 3268>>, <<3270, 3272>>, <<3274, 3277>>,
     <<3285, 3286>>, <<3298, 3299>>, <<3302, 3311>>, <<3315, 3315>>, <<3328, 3331>>, <<3387, 3388>>, <<3390, 3396>>, <<3398, 3400>>,
     <<3402, 3405>>, <<3415, 3415>>, <<3426, 3427>>, <<3430, 3439>>, <<3457, 3459>>, <<3530, 3530>>, <<3535, 3540>>, <<3542, 3542>>,
     <<3544, 3551>>, <<3558, 3567>>, <<3570, 3571>>, <<3633, 3633>>, <<3636, 3642>>, <<3655, 3662>>, <<3664, 3673>>, <<3761, 3761>>,
     <<3764, 3772>>, <<3784, 3790>>, <<3792, 3801>>, <<3864, 3865>>, <<3872, 3881>>, <<3893, 3893>>, <<3895, 3895>>, <<3897, 3897>>,
     <<3902, 3903>>, <<3953, 3972>>, <<3974, 3975>>, <<3981, 3991>>, <<3993, 4028>>, <<4038, 4038>>, <<4139, 4158>>, <<4160, 4169>>,
     <<4182, 4185>>, <<4190, 4192>>, <<4194, 4196>>, <<4199, 4205>>, <<4209, 4212>>, <<4226, 4237>>, <<4239, 4253>>, <<4957, 4959>>,
     <<4969, 4977>>, <<5906, 5909>>, <<5938, 5940>>, <<5970, 5971>>, <<6002, 6003>>, <<6068, 6099>>, <<6109, 6109>>, <<6112, 6121>>,
     <<6155, 6157>>, <<6159, 6169>>, <<6313, 6313>>, <<6432, 6443>>, <<6448, 6459>>, <<6470, 6479>>, <<6608, 6618>>, <<6679, 6683>>,
     <<6741, 6750>>, <<6752, 6780>>, <<6783, 6793>>, <<6800, 6809>>, <<6832, 6845>>, <<6847, 6877>>, <<6880, 6891>>, <<6912, 6916>>,
     <<6964, 6980>>, <<6992, 7001>>, <<7019, 7027>>, <<7040, 7042>>, <<7073, 7085>>, <<7088, 7097>>, <<7142, 7155>>, <<7204, 7223>>,
     <<7232, 7241>>, <<7248, 7257>>, <<7376, 7378>>, <<7380, 7400>>, <<7405, 7405>>, <<7412, 7412>>, <<7415, 7417>>, <<7616, 7679>>,
     <<8204, 8205>>, <<8255, 8256>>, <<8276, 8276>>, <<8400, 8412>>, <<8417, 8417>>, <<8421, 8432>>, <<11503, 11505>>, <<11647, 11647>>,
     <<11744, 11775>>, <<12330, 12335>>, <<12441, 12442>>, <<12539, 12539>>, <<42528, 42537>>, <<42607, 42607>>, <<42612, 42621>>, <<42654, 42655>>,
     <<42736, 42737>>, <<43010, 43010>>, <<43014, 43014>>, <<43019, 43019>>, <<43043, 43047>>, <<43052, 43052>>, <<43136, 43137>>, <<43188, 43205>>,
     <<43216, 43225>>, <<43232, 43249>>, <<43263, 43273>>, <<43302, 43309>>, <<43335, 43347>>, <<43392, 43395>>, <<43443, 43456>>, <<43472, 43481>>,
     <<43493, 43493>>, <<43504, 43513>>, <<43561, 43574>>, <<43587, 43587>>, <<43596, 43597>>, <<43600, 43609>>, <<43643, 43645>>, <<43696, 43696>>,
     <<43698, 43700>>, <<43703, 43704>>, <<43710, 43711>>, <<43713, 43713>>, <<43755, 43759>>, <<43765, 43766>>, <<44003, 44010>>, <<44012, 44013>>,
     <<44016, 44025>>, <<64286, 64286>>, <<65024, 65039>>, <<65056, 65071>>, <<65075, 65076>>, <<65101, 65103>>, <<65296, 65305>>, <<65343, 65343>>,
     <<65381, 65381>>, <<66045, 66045>>, <<66272, 66272>>, <<66422, 66426>>, <<66720, 66729>>, <<68097, 68099>>, <<68101, 68102>>, <<68108, 68111>>,
     <<68152, 68154>>, <<68159, 68159>>, <<68325, 68326>>, <<68900, 68903>>, <<68912, 68921>>, <<68928, 68937>>, <<68969, 68973>>, <<69291, 69292>>,
     <<69370, 69375>>, <<69446, 69456>>, <<69506, 69509>>, <<69632, 69634>>, <<69688, 69702>>, <<69734, 69744>>, <<69747, 69748>>, <<69759, 69762>>,
     <<69808, 69818>>, <<69826, 69826>>, <<69872, 69881>>, <<69888, 69890>>, <<69927, 69940>>, <<69942, 69951>>, <<69957, 69958>>, <<70003, 70003>>,
     <<70016, 70018>>, <<70067, 70080>>, <<70089, 70092>>, <<70094, 70105>>, <<70188, 70199>>, <<70206, 70206>>, <<70209, 70209>>, <<70367, 70378>>,
     <<70384, 70393>>, <<70400, 70403>>, <<70459, 70460>>, <<70462, 70468>>, <<70471, 70472>>, <<70475, 70477>>, <<70487, 70487>>, <<70498, 70499>>,
     <<70502, 70508>>, <<70512, 70516>>, <<70584, 70592>>, <<70594, 70594>>, <<70597, 70597>>, <<70599, 70602>>, <<70604, 70608>>, <<70610, 70610>>,
     <<70625, 70626>>, <<70709, 70726>>, <<70736, 70745>>, <<70750, 70750>>, <<70832, 70851>>, <<70864, 70873>>, <<71087, 71093>>, <<71096, 71104>>,
     <<71132, 71133>>, <<71216, 71232>>, <<71248, 71257>>, <<71339, 71351>>, <<71360, 71369>>, <<71376, 71395>>, <<71453, 71467>>, <<71472, 71481>>,
     <<71724, 71738>>, <<71904, 71913>>, <<71984, 71989>>, <<71991, 71992>>, <<71995, 71998>>, <<72000, 72000>>, <<72002, 72003>>, <<72016, 72025>>,
     <<72145, 72151>>, <<72154, 72160>>, <<72164, 72164>>, <<72193, 72202>>, <<72243, 72249>>, <<72251, 72254>>, <<72263, 72263>>, <<72273, 72283>>,
     <<72330, 72345>>, <<72544, 72551>>, <<72688, 72697>>, <<72751, 72758>>, <<72760, 72767>>, <<72784, 72793>>, <<72850, 72871>>, <<72873, 72886>>,
     <<73009, 73014>>, <<73018, 73018>>, <<73020, 73021>>, <<73023, 73029>>, <<73031, 73031>>, <<73040, 73049>>, <<73098, 73102>>, <<73104, 73105>>,
     <<73107, 73111>>, <<73120, 73129>>, <<73184, 73193>>, <<73459, 73462>>, <<73472, 73473>>, <<73475, 73475>>, <<73524, 73530>>, <<73534, 73538>>,
     <<73552, 73562>>, <<78912, 78912>>, <<78919, 78933>>, <<90398, 90425>>, <<92768, 92777>>, <<92864, 92873>>, <<92912, 92916>>, <<92976, 92982>>,
     <<93008, 93017>>, <<93552, 93561>>, <<94031, 94031>>, <<94033, 94087>>, <<94095, 94098>>, <<94180, 94180>>, <<94192, 94193>>, <<113821, 113822>>,
     <<118000, 118009>>, <<118528, 118573>>, <<118576, 118598>>, <<119141, 119145>>, <<119149, 119154>>, <<119163, 119170>>, <<119173, 119179>>, <<119210, 119213>>,
     <<119362, 119364>>, <<120782, 120831>>, <<121344, 121398>>, <<121403, 121452>>, <<121461, 121461>>, <<121476, 121476>>, <<121499, 121503>>, <<121505, 121519>>,
     <<122880, 122886>>, <<122888, 122904>>, <<122907, 122913>>, <<122915, 122916>>, <<122918, 122922>>, <<123023, 123023>>, <<123184, 123190>>, <<123200, 123209>>,
     <<123566, 123566>>, <<123628, 123641>>, <<124140, 124153>>, <<124398, 124399>>, <<124401, 124410>>, <<124643, 124643>>, <<124646, 124646>>, <<124654, 124655>>,
     <<124661, 124661>>, <<125136, 125142>>, <<125252, 125258>>, <<125264, 125273>>, <<130032, 130041>>, <<917760, 917999>>}

\* IsIdentifierStart
isIdentifierStart(code) ==
    code \in 65..90 \cup 97..122 \cup {36, 95} \/ (code > 127 /\ inRanges(code, IdStartRanges))

\* IsIdentifierPart: also the digits, the zero width non-joiner and the zero width joiner
isIdentifierPart(code) ==
    \/ isIdentifierStart(code)
    \/ code \in 48..57 \cup {8204, 8205}
    \/ (code > 127 /\ inRanges(code, IdContinueRanges))

\* the escape \uXXXX or \u{X...} of a group name, its first character after \u at i:
\* the code point, and the position after; two escapes of a surrogate pair make one
\* code point
unicodeEscape(p, i) ==
    LET hexDigits == runOf(p, i + 1, HexDigits, Len(p))
        trail == numberAt(p, i + 6, i + 9, 16)
    IN  IF peek(p, i) = "{"
        THEN IF hexDigits >= 1 /\ peek(p, i + 1 + hexDigits) = "}"
                /\ numberAt(p, i + 1, i + hexDigits, 16) <= 1114111
             THEN [ok |-> TRUE, code |-> numberAt(p, i + 1, i + hexDigits, 16), i |-> i + hexDigits + 2]
             ELSE Throw("SyntaxError: Invalid Unicode escape")
        ELSE IF runOf(p, i, HexDigits, 4) # 4
        THEN Throw("SyntaxError: Invalid Unicode escape")
        ELSE IF numberAt(p, i, i + 3, 16) \in 55296..56319
                /\ peek(p, i + 4) = "\\" /\ peek(p, i + 5) = "u"
                /\ runOf(p, i + 6, HexDigits, 4) = 4 /\ trail \in 56320..57343
        THEN [ok |-> TRUE,
              code |-> 65536 + ((numberAt(p, i, i + 3, 16) - 55296) * 1024) + (trail - 56320),
              i |-> i + 10]
        ELSE [ok |-> TRUE, code |-> numberAt(p, i, i + 3, 16), i |-> i + 4]

\* the character of a group name at i, as its code point (-1 at the end of the
\* pattern), and the position after
nameCharacter(p, i) ==
    IF i > Len(p) THEN [ok |-> TRUE, code |-> -1, i |-> i + 1]
    ELSE IF charAt(p, i) = "\\" /\ peek(p, i + 1) = "u" THEN unicodeEscape(p, i + 2)
    ELSE [ok |-> TRUE, code |-> charCode(charAt(p, i)), i |-> i + 1]

\* ParseCaptureGroupName from i, name being the code points read so far: the name up
\* to ">", and the position after it
RECURSIVE groupNameFrom(_, _, _)
groupNameFrom(p, i, name) ==
    Bind(nameCharacter(p, i), LAMBDA c :
        IF ~c.ok THEN c
        ELSE IF c.code = 92 THEN Throw("SyntaxError: Invalid capture group name")
        ELSE IF name = <<>>
        THEN IF isIdentifierStart(c.code) THEN groupNameFrom(p, c.i, <<c.code>>)
             ELSE Throw("SyntaxError: Invalid capture group name")
        ELSE IF c.code = 62 THEN [ok |-> TRUE, name |-> name, i |-> c.i]
        ELSE IF isIdentifierPart(c.code) THEN groupNameFrom(p, c.i, Append(name, c.code))
        ELSE Throw("SyntaxError: Invalid capture group name"))

\* GroupName: the name that starts at i, as its code points
groupName(p, i) == groupNameFrom(p, i, <<>>)

\* a capture group as the scan of the pattern sees it: whether it is a named one, and
\* its name (<<>> without a name that can be read)
Group(named, name) == [named |-> named, name |-> name]

\* ScanForCaptures: the capture groups of the pattern in the order of their opening
\* parentheses
RECURSIVE groupNames(_, _, _, _)
groupNames(p, i, inClass, names) ==
    IF i > Len(p) THEN names
    ELSE LET c == charAt(p, i)
         IN  IF c = "\\" THEN groupNames(p, i + 2, inClass, names)
             ELSE IF inClass THEN groupNames(p, i + 1, c # "]", names)
             ELSE IF c = "[" THEN groupNames(p, i + 1, TRUE, names)
             ELSE IF c # "(" THEN groupNames(p, i + 1, FALSE, names)
             ELSE IF peek(p, i + 1) # "?"
             THEN groupNames(p, i + 1, FALSE, Append(names, Group(FALSE, <<>>)))
             ELSE IF peek(p, i + 2) = "<" /\ peek(p, i + 3) \notin {"=", "!"}
             THEN groupNames(p, i + 1, FALSE,
                      Append(names, Group(TRUE, IF groupName(p, i + 3).ok
                                                THEN groupName(p, i + 3).name ELSE <<>>)))
             ELSE groupNames(p, i + 1, FALSE, names)

\* HasNamedCaptures
hasNamedGroups(names) == \E k \in 1..Len(names) : names[k].named

\* the numbers of the groups with the given name
groupsNamed(names, name) == {k \in 1..Len(names) : names[k].named /\ names[k].name = name}

braceRegex ==
    <<Lit("{"), Open(1), Plus(In(DigitCharacters)), Close(1),
      Opt(<<Lit(","), Open(2), Star(In(DigitCharacters)), Close(2)>>), Lit("}")>>

\* the {n}, {n,} or {n,m} at i, if there is one
braceAt(p, i) ==
    IF peek(p, i) # "{" THEN NoMatch ELSE matchAnchored(SubSeq(p, i, Len(p)), braceRegex)

\* Quantifier at i, if there is one: its bounds, whether it is greedy, the position
\* after it
quantifierAt(p, i) ==
    Bind(braceAt(p, i), LAMBDA brace :
    Bind(IF brace.ok THEN i + brace.end - 1 ELSE i + 1, LAMBDA after :
    Bind(peek(p, after) = "?", LAMBDA lazy :
    Bind([ok |-> TRUE, present |-> TRUE, greedy |-> ~lazy,
          i |-> IF lazy THEN after + 1 ELSE after], LAMBDA found :
        CASE peek(p, i) = "*" -> found @@ [min |-> 0, max |-> Unbounded]
          [] peek(p, i) = "+" -> found @@ [min |-> 1, max |-> Unbounded]
          [] peek(p, i) = "?" -> found @@ [min |-> 0, max |-> 1]
          [] peek(p, i) = "{" /\ brace.ok ->
               Bind(numberAt(brace.caps[1], 1, Len(brace.caps[1]), 10), LAMBDA low :
               Bind(IF 2 \notin DOMAIN brace.caps THEN low
                    ELSE IF brace.caps[2] = "" THEN Unbounded
                    ELSE numberAt(brace.caps[2], 1, Len(brace.caps[2]), 10), LAMBDA high :
                   IF high # Unbounded /\ high < low
                   THEN Throw("SyntaxError: numbers out of order in {} quantifier")
                   ELSE found @@ [min |-> low, max |-> high]))
          [] OTHER -> [ok |-> TRUE, present |-> FALSE]))))

\* a reference \k<name> to a name that no group of the pattern has
UnknownReference == [t |-> "unknown"]

\* whether the nodes hold an UnknownReference
RECURSIVE hasUnknownReference(_)
hasUnknownReference(nodes) ==
    \E k \in 1..Len(nodes) :
        \/ nodes[k].t = "unknown"
        \/ nodes[k].t \in {"opt", "loop", "look"} /\ hasUnknownReference(nodes[k].xs)
        \/ nodes[k].t = "alt" /\ \E b \in 1..Len(nodes[k].xss) : hasUnknownReference(nodes[k].xss[b])

\* whether the nodes can match the empty string only
RECURSIVE onlyEmpty(_)
onlyEmpty(nodes) ==
    \A k \in 1..Len(nodes) :
        \/ nodes[k].t \in {"open", "close", "start", "end", "wordb", "look", "progress"}
        \/ nodes[k].t = "lit" /\ nodes[k].s = ""
        \/ nodes[k].t = "rep" /\ nodes[k].max = 0
        \/ nodes[k].t = "loop" /\ (nodes[k].max = 0 \/ onlyEmpty(nodes[k].xs))
        \/ nodes[k].t = "opt" /\ onlyEmpty(nodes[k].xs)
        \/ nodes[k].t = "alt" /\ \A b \in 1..Len(nodes[k].xss) : onlyEmpty(nodes[k].xss[b])

\* AddQuantifierToAtom: an atom that matches the empty string only is dropped when it
\* need not match and kept as it is otherwise; a one-character class is repeated by
\* Repeat, anything else by Loop
repeated(nodes, q, groups) ==
    IF onlyEmpty(nodes) /\ ~hasUnknownReference(nodes)
    THEN (IF q.min = 0 THEN <<>> ELSE nodes)
    ELSE IF Len(nodes) = 1 /\ nodes[1].t \in {"in", "notin"}
    THEN <<Repeat(nodes[1], q.min, q.max, q.greedy)>>
    ELSE IF Len(nodes) = 1 /\ nodes[1].t = "lit" /\ Len(nodes[1].s) = 1
    THEN <<Repeat(In({nodes[1].s}), q.min, q.max, q.greedy)>>
    ELSE <<Loop(nodes, q.min, q.max, q.greedy, groups)>>

\* ParseNamedBackReference, the backslash of \k at i: a reference to a group that is
\* being parsed is empty, and one to an unknown name is refused once the whole
\* pattern is parsed
namedBackReference(p, i, g, names, inside) ==
    IF peek(p, i + 2) # "<" THEN Throw("SyntaxError: Invalid named reference")
    ELSE Bind(groupName(p, i + 3), LAMBDA name :
             IF ~name.ok THEN name
             ELSE Bind(groupsNamed(names, name.name), LAMBDA found :
                      Parsed(IF found = {} THEN <<UnknownReference>>
                             ELSE IF found \cap inside # {} THEN <<>>
                             ELSE <<Backref(Min(found))>>,
                             name.i, g, "taken")))

\* AtomEscape and the assertions \b \B, the backslash at i; names are the capture
\* groups of the pattern, inside the numbers of those being parsed
atomEscape(p, i, g, names, inside) ==
    IF i = Len(p) THEN Throw("SyntaxError: \\ at end of pattern")
    ELSE
    LET e == charAt(p, i + 1)
        decimal == runOf(p, i + 1, DigitCharacters, Len(p))
        escape == characterEscape(p, i + 1, FALSE)
    IN  CASE e = "b" -> Parsed(<<WordBoundary(FALSE)>>, i + 2, g, "unread")
          [] e = "B" -> Parsed(<<WordBoundary(TRUE)>>, i + 2, g, "unread")
          [] e \in ClassEscapes -> Parsed(<<classNode(classEscape(e))>>, i + 2, g, "taken")
          [] e = "k" /\ hasNamedGroups(names) -> namedBackReference(p, i, g, names, inside)
          [] e \in DigitCharacters \ {"0"}
             /\ numberAt(p, i + 1, i + decimal, 10) <= Len(names) ->
               Parsed(IF numberAt(p, i + 1, i + decimal, 10) \in inside THEN <<>>
                      ELSE <<Backref(numberAt(p, i + 1, i + decimal, 10))>>,
                      i + 1 + decimal, g, "taken")
          [] OTHER -> Parsed(<<classNode(codeClass(escape.code))>>, escape.i, g, "taken")

RECURSIVE parseDisjunction(_, _, _, _, _)
RECURSIVE parseAlternative(_, _, _, _, _, _)
RECURSIVE parseTerm(_, _, _, _, _)
RECURSIVE parseAtom(_, _, _, _, _)
RECURSIVE parseGroup(_, _, _, _, _)

\* a group, its opening parenthesis at i; the name of a named group is registered at
\* its closing parenthesis, where a group closed before with the same name is an error
parseGroup(p, i, g, names, inside) ==
    LET a == peek(p, i + 1)
        b == peek(p, i + 2)
        c == peek(p, i + 3)
        kind == IF a # "?" THEN "capture"
                ELSE IF b = ":" THEN "plain"
                ELSE IF b \in {"=", "!"} THEN "ahead"
                ELSE IF b = "<" /\ c \in {"=", "!"} THEN "behind"
                ELSE IF b = "<" THEN "named"
                ELSE "invalid"
        name == groupName(p, i + 3)
        capturing == kind \in {"capture", "named"}
        body == CASE kind = "capture" -> i + 1
                  [] kind = "behind" -> i + 4
                  [] kind = "named" -> name.i
                  [] OTHER -> i + 3
    IN  IF kind = "invalid" THEN Throw("SyntaxError: Invalid group")
        ELSE IF kind = "named" /\ ~name.ok THEN name
        ELSE Bind(parseDisjunction(p, body, IF capturing THEN g + 1 ELSE g, names,
                                   IF capturing THEN inside \cup {g + 1} ELSE inside),
                  LAMBDA d :
            IF ~d.ok THEN d
            ELSE IF peek(p, d.i) # ")" THEN Throw("SyntaxError: Unterminated group")
            ELSE IF kind = "named"
                    /\ (groupsNamed(names, name.name) \cap 1..d.g) \ (inside \cup {g + 1}) # {}
            THEN Throw("SyntaxError: Duplicate capture group name")
            ELSE Parsed(CASE capturing -> <<Open(g + 1)>> \o d.nodes \o <<Close(g + 1)>>
                          [] kind = "plain" -> d.nodes
                          [] kind = "ahead" -> <<Look(d.nodes, FALSE, b = "!")>>
                          [] kind = "behind" -> <<Look(d.nodes, TRUE, c = "!")>>,
                        d.i + 1, d.g, IF kind = "behind" THEN "refused" ELSE "taken"))

\* Atom or Assertion at i
parseAtom(p, i, g, names, inside) ==
    LET c == charAt(p, i)
    IN  CASE c = "^" -> Parsed(<<StartAnchor>>, i + 1, g, "unread")
          [] c = "$" -> Parsed(<<EndAnchor>>, i + 1, g, "unread")
          [] c = "." -> Parsed(<<AnyChar>>, i + 1, g, "taken")
          [] c \in {"*", "+", "?"} -> Throw("SyntaxError: Nothing to repeat")
          [] c = "{" ->
               \* a brace that is not a quantifier stands for itself
               IF braceAt(p, i).ok THEN Throw("SyntaxError: Nothing to repeat")
               ELSE Parsed(<<Lit(c)>>, i + 1, g, "taken")
          [] c = "(" -> parseGroup(p, i, g, names, inside)
          [] c = "[" -> characterClass(p, i, g, hasNamedGroups(names))
          [] c = "\\" -> atomEscape(p, i, g, names, inside)
          [] OTHER -> Parsed(<<Lit(c)>>, i + 1, g, "taken")

\* Term at i: an assertion, or an atom and its quantifier
parseTerm(p, i, g, names, inside) ==
    Bind(parseAtom(p, i, g, names, inside), LAMBDA atom :
        IF ~atom.ok \/ atom.quantifier = "unread" THEN atom
        ELSE Bind(quantifierAt(p, atom.i), LAMBDA q :
            IF ~q.ok THEN q
            ELSE IF ~q.present THEN atom
            ELSE IF atom.quantifier = "refused" THEN Throw("SyntaxError: Invalid quantifier")
            ELSE Parsed(repeated(atom.nodes, q, (g + 1)..atom.g), q.i, atom.g, "taken")))

\* Alternative from i: terms up to a | or a closing parenthesis
parseAlternative(p, i, g, names, inside, nodes) ==
    IF i > Len(p) \/ charAt(p, i) \in {"|", ")"} THEN Parsed(nodes, i, g, "taken")
    ELSE Bind(parseTerm(p, i, g, names, inside), LAMBDA term :
             IF ~term.ok THEN term
             ELSE parseAlternative(p, term.i, term.g, names, inside, nodes \o term.nodes))

\* Disjunction from i: alternatives separated by |
parseDisjunction(p, i, g, names, inside) ==
    Bind(parseAlternative(p, i, g, names, inside, <<>>), LAMBDA first :
        IF ~first.ok \/ peek(p, first.i) # "|" THEN first
        ELSE Bind(parseDisjunction(p, first.i + 1, first.g, names, inside), LAMBDA others :
                 IF ~others.ok THEN others
                 ELSE Parsed(<<Alt(<<first.nodes, others.nodes>>)>>, others.i, others.g,
                             "taken")))

\* new RegExp(pattern): the nodes of the pattern, or the SyntaxError; the first
\* error met from left to right is the one thrown, and a reference to an unknown
\* group name is an error of the end of the pattern
regExpCompile(pattern) ==
    Bind(groupNames(pattern, 1, FALSE, <<>>), LAMBDA names :
        Bind(parseDisjunction(pattern, 1, 0, names, {}), LAMBDA d :
            IF ~d.ok THEN d
            ELSE IF d.i <= Len(pattern) THEN Throw("SyntaxError: Unmatched ')'")
            ELSE IF hasUnknownReference(d.nodes)
            THEN Throw("SyntaxError: Invalid named capture referenced")
            ELSE Return(d.nodes)))

\* new RegExp(pattern).test(str)
regExpTest(pattern, str) ==
    Bind(regExpCompile(pattern), LAMBDA compiled :
        IF ~compiled.ok THEN compiled
        ELSE Return(matchSearch(str, compiled.value).ok))

-----------------------------------------------------------------------------
(* RuleEngine *)

\* the fieldMap of resolveOperand
fieldMap ==
    [Id |-> "id", Title |-> "System.Title", State |-> "System.State",
     AssignedTo |-> "System.AssignedTo", Tags |-> "System.Tags",
     Reason |-> "System.Reason", WorkItemType |-> "System.WorkItemType",
     AreaPath |-> "System.AreaPath", TeamProject |-> "System.TeamProject",
     IterationPath |-> "System.IterationPath"]

\* the names of the properties that an object written as a literal inherits from
\* Object.prototype: reading one of them from the object gives the inherited member
ObjectPrototypeMembers ==
    {"constructor", "hasOwnProperty", "isPrototypeOf", "propertyIsEnumerable",
     "toLocaleString", "toString", "valueOf", "__defineGetter__", "__defineSetter__",
     "__lookupGetter__", "__lookupSetter__", "__proto__"}

\* the property key an inherited member makes when an object is indexed with it: String
\* of the function, and String of Object.prototype for __proto__
memberAsKey(name) ==
    IF name = "__proto__" THEN "[object Object]"
    ELSE "function " \o (IF name = "constructor" THEN "Object" ELSE name)
         \o "() { [native code] }"

\* fieldMap[operand.field] || operand.field, as the key it makes: the entry of the map,
\* the member inherited by the map when the field has the name of one, else the field
actualFieldNameOf(field) ==
    IF field \in DOMAIN fieldMap THEN fieldMap[field]
    ELSE IF field \in ObjectPrototypeMembers THEN memberAsKey(field)
    ELSE field

\* workItem.fields[key]
fieldValue(workItem, key) ==
    IF key \in DOMAIN workItem.fields THEN workItem.fields[key] ELSE Undefined

\* operand.object and operand.field: <<the property>>, or <<>> for undefined, which is
\* what the property is for a constant operand read as an object operand
objectOf(operand) == IF "object" \in DOMAIN operand THEN <<operand.object>> ELSE <<>>

fieldOf(operand) == IF "field" \in DOMAIN operand THEN <<operand.field>> ELSE <<>>

\* operand.conditions, with undefined read as no conditions
conditionsOf(operand) ==
    IF "conditions" \in DOMAIN operand THEN operand.conditions ELSE <<>>

\* What the methods can write to. No statement of RuleEngine assigns to a property, and
\* push is the only method called that changes its receiver, so the objects a call can
\* change are arrays: the then list of the rule and the child list, which the caller
\* supplied, and the arrays created during the call. The memory holds the elements of
\* each of them, and an array is handed around as a reference: <<"then">>,
\* <<"childWorkItems">>, or <<"created", n>> for the n-th array created.
memoryOf(then, childWorkItems) ==
    [then |-> then, childWorkItems |-> childWorkItems, created |-> <<>>]

\* the elements of the array at the time of the read
elements(memory, array) ==
    IF array[1] = "created" THEN memory.created[array[2]] ELSE memory[array[1]]

\* array.push(...items)
push(memory, array, items) ==
    IF array[1] = "created" THEN [memory EXCEPT !.created[array[2]] = @ \o items]
    ELSE [memory EXCEPT ![array[1]] = @ \o items]

\* an array literal, or the array a split or a filter returns: the memory with the new
\* array, and the reference to it
newArray(memory, items) ==
    [memory |-> [memory EXCEPT !.created = Append(@, items)],
     array |-> <<"created", Len(memory.created) + 1>>]

\* a method that returned, or threw, with the memory it leaves
Returned(value, memory) == [ok |-> TRUE, value |-> value, memory |-> memory]

Thrown(error, memory) == [ok |-> FALSE, error |-> error, memory |-> memory]

\* what the caller gets from a method that returns an array: the elements, or the error
returnedBy(r) == IF r.ok THEN Return(elements(r.memory, r.value)) ELSE Throw(r.error)

\* The methods from here to evaluateRule hold no statement that writes: they are given
\* the elements of the child list as they are at the call.

RECURSIVE evaluateCondition(_, _, _, _, _)
RECURSIVE conditionsMetFrom(_, _, _, _, _, _)
RECURSIVE findMatchingChildFrom(_, _, _, _, _)
RECURSIVE resolveOperand(_, _, _, _, _)

\* the loop "for (const condition of conditions)" from condition k on: false at the
\* first condition that is false, true when none is
conditionsMetFrom(conditions, k, implicitWorkItem, triggeringWorkItem, parentWorkItem, childWorkItems) ==
    IF k > Len(conditions) THEN Return(TRUE)
    ELSE
    Bind(evaluateCondition(conditions[k], implicitWorkItem, triggeringWorkItem,
                           parentWorkItem, childWorkItems),
         LAMBDA met :
        IF ~met.ok THEN met
        ELSE IF ~met.value THEN Return(FALSE)
        ELSE conditionsMetFrom(conditions, k + 1, implicitWorkItem, triggeringWorkItem,
                               parentWorkItem, childWorkItems))

\* the loop "for (const child of childWorkItems)" of findMatchingChild from child c on
findMatchingChildFrom(conditions, c, triggeringWorkItem, parentWorkItem, childWorkItems) ==
    IF c > Len(childWorkItems) THEN Return(<<>>)
    ELSE
    Bind(conditionsMetFrom(conditions, 1, childWorkItems[c], triggeringWorkItem,
                           parentWorkItem, childWorkItems),
         LAMBDA allConditionsMet :
        IF ~allConditionsMet.ok THEN allConditionsMet
        ELSE IF allConditionsMet.value THEN Return(<<childWorkItems[c]>>)
        ELSE findMatchingChildFrom(conditions, c + 1, triggeringWorkItem, parentWorkItem,
                                   childWorkItems))

\* findMatchingChild: <<child>>, or <<>> for undefined
findMatchingChild(conditions, triggeringWorkItem, parentWorkItem, childWorkItems) ==
    IF Len(conditions) = 0
    THEN Return(IF Len(childWorkItems) > 0 THEN <<childWorkItems[1]>> ELSE <<>>)
    ELSE findMatchingChildFrom(conditions, 1, triggeringWorkItem, parentWorkItem,
                               childWorkItems)

\* getWorkItemForOperand: <<workItem>>, or <<>> for undefined
getWorkItemForOperand(operand, implicitWorkItem, triggeringWorkItem, parentWorkItem, childWorkItems) ==
    CASE objectOf(operand) = <<"me">> -> Return(<<triggeringWorkItem>>)
      [] objectOf(operand) = <<"parent">> -> Return(parentWorkItem)
      [] objectOf(operand) = <<"child">> ->
           findMatchingChild(conditionsOf(operand), triggeringWorkItem, parentWorkItem,
                             childWorkItems)
      [] objectOf(operand) = <<"children">> ->
           findMatchingChild(conditionsOf(operand), triggeringWorkItem, parentWorkItem,
                             childWorkItems)
      [] objectOf(operand) = <<"implicit">> -> Return(<<implicitWorkItem>>)
      [] OTHER -> Return(<<>>)

resolveOperand(operand, implicitWorkItem, triggeringWorkItem, parentWorkItem, childWorkItems) ==
    IF "value" \in DOMAIN operand THEN Return(StringValue(operand.value))
    ELSE
    Bind(getWorkItemForOperand(operand, implicitWorkItem, triggeringWorkItem,
                               parentWorkItem, childWorkItems),
         LAMBDA workItem :
        IF ~workItem.ok THEN workItem
        ELSE IF workItem.value = <<>> THEN Return(Undefined)
        ELSE
        Bind(actualFieldNameOf(operand.field), LAMBDA actualFieldName :
            IF actualFieldName = "id" THEN Return(NumberValue(workItem.value[1].id))
            ELSE Return(fieldValue(workItem.value[1], actualFieldName))))

\* !x for a call that returns x or throws
not(r) == IF r.ok THEN Return(~r.value) ELSE r

evaluateCondition(condition, implicitWorkItem, triggeringWorkItem, parentWorkItem, childWorkItems) ==
    Bind(resolveOperand(condition.leftOperand, implicitWorkItem, triggeringWorkItem,
                        parentWorkItem, childWorkItems),
         LAMBDA leftValue :
    IF ~leftValue.ok THEN leftValue
    ELSE
    Bind(resolveOperand(condition.rightOperand, implicitWorkItem, triggeringWorkItem,
                        parentWorkItem, childWorkItems),
         LAMBDA rightValue :
    IF ~rightValue.ok THEN rightValue
    ELSE IF leftValue.value = Undefined \/ rightValue.value = Undefined
    THEN Return(FALSE)
    ELSE
    LET leftStr == String(leftValue.value)
        rightStr == String(rightValue.value)
    IN  CASE condition.operator = "matches" -> regExpTest(rightStr, leftStr)
          [] condition.operator = "not matches" -> not(regExpTest(rightStr, leftStr))
          [] condition.operator = "is" -> Return(leftStr = rightStr)
          [] condition.operator = "is not" -> Return(leftStr # rightStr)
          [] condition.operator = "contains" -> Return(includes(leftStr, rightStr))
          [] condition.operator = "starts with" -> Return(startsWith(leftStr, rightStr))
          [] condition.operator = "ends with" -> Return(endsWith(leftStr, rightStr))
          [] OTHER -> Return(FALSE)))

\* evaluateRule on the first condition of the when list only
evaluateRuleFirstOnly(rule, triggeringWorkItem, parentWorkItem, childWorkItems) ==
    IF Len(rule.when) = 0 THEN Return(TRUE)
    ELSE evaluateCondition(rule.when[1], triggeringWorkItem, triggeringWorkItem,
                           parentWorkItem, childWorkItems)

\* evaluateRule(rule, triggeringWorkItem, parentWorkItem, childWorkItems)
evaluateRule(rule, triggeringWorkItem, parentWorkItem, childWorkItems) ==
    conditionsMetFrom(rule.when, 1, triggeringWorkItem, triggeringWorkItem,
                      parentWorkItem, childWorkItems)

\* The methods from here on create arrays and push to them: they are given the child
\* list and the then list as references, and the memory.

\* the loop "for (const child of childWorkItems)" of findMatchingChildren from child c
\* on; the array is read again at every turn, as the iterator of the array does
RECURSIVE findMatchingChildrenFrom(_, _, _, _, _, _, _)
findMatchingChildrenFrom(conditions, c, triggeringWorkItem, parentWorkItem, childWorkItems, matchingChildren, memory) ==
    IF c > Len(elements(memory, childWorkItems)) THEN Returned(matchingChildren, memory)
    ELSE
    Bind(conditionsMetFrom(conditions, 1, elements(memory, childWorkItems)[c],
                           triggeringWorkItem, parentWorkItem,
                           elements(memory, childWorkItems)),
         LAMBDA allConditionsMet :
        IF ~allConditionsMet.ok THEN Thrown(allConditionsMet.error, memory)
        ELSE findMatchingChildrenFrom(
                 conditions, c + 1, triggeringWorkItem, parentWorkItem, childWorkItems,
                 matchingChildren,
                 IF allConditionsMet.value
                 THEN push(memory, matchingChildren, <<elements(memory, childWorkItems)[c]>>)
                 ELSE memory))

\* findMatchingChildren that takes the children that do not match out of the list it
\* was given, and returns that list
findMatchingChildrenInPlace(conditions, triggeringWorkItem, parentWorkItem, childWorkItems, memory) ==
    IF Len(conditions) = 0 THEN Returned(childWorkItems, memory)
    ELSE
    Bind(newArray(memory, <<>>), LAMBDA matchingChildren :
    Bind(findMatchingChildrenFrom(conditions, 1, triggeringWorkItem, parentWorkItem,
                                  childWorkItems, matchingChildren.array,
                                  matchingChildren.memory),
         LAMBDA found :
        IF ~found.ok THEN found
        ELSE Returned(childWorkItems,
                      [found.memory EXCEPT ![childWorkItems[1]] =
                          elements(found.memory, found.value)])))

\* findMatchingChildren: the child list itself when there are no conditions, else a new
\* array
findMatchingChildren(conditions, triggeringWorkItem, parentWorkItem, childWorkItems, memory) ==
    IF Len(conditions) = 0 THEN Returned(childWorkItems, memory)
    ELSE
    Bind(newArray(memory, <<>>), LAMBDA matchingChildren :
        findMatchingChildrenFrom(conditions, 1, triggeringWorkItem, parentWorkItem,
                                 childWorkItems, matchingChildren.array,
                                 matchingChildren.memory))

\* return [workItem], or [] for <<>>
returnArrayOf(workItems, memory) ==
    Bind(newArray(memory, workItems), LAMBDA created :
        Returned(created.array, created.memory))

\* resolveTargetWorkItems
resolveTargetWorkItems(operand, triggeringWorkItem, parentWorkItem, childWorkItems, memory) ==
    CASE objectOf(operand) = <<"me">> -> returnArrayOf(<<triggeringWorkItem>>, memory)
      [] objectOf(operand) = <<"parent">> -> returnArrayOf(parentWorkItem, memory)
      [] objectOf(operand) = <<"child">> ->
           Bind(findMatchingChild(conditionsOf(operand), triggeringWorkItem, parentWorkItem,
                                  elements(memory, childWorkItems)),
                LAMBDA matchingChild :
               IF ~matchingChild.ok THEN Thrown(matchingChild.error, memory)
               ELSE returnArrayOf(matchingChild.value, memory))
      [] objectOf(operand) = <<"children">> ->
           findMatchingChildren(conditionsOf(operand), triggeringWorkItem, parentWorkItem,
                                childWorkItems, memory)
      [] OTHER -> returnArrayOf(<<triggeringWorkItem>>, memory)

\* an UpdateOperation built by executeAction; a flag the action leaves undefined is
\* no field of the record
updateOperation(workItem, action, fieldPath, value) ==
    [url |-> workItem.url, op |-> "replace", path |-> fieldPath, value |-> value]
    @@ (IF "suppressNotifications" \in DOMAIN action.alterOptions
        THEN [suppressNotifications |-> action.alterOptions.suppressNotifications]
        ELSE EmptyObject)
    @@ (IF "bypassRules" \in DOMAIN action.alterOptions
        THEN [bypassRules |-> action.alterOptions.bypassRules]
        ELSE EmptyObject)

\* String(value), and String(value.uniqueName) when 'uniqueName' in value; the in of a
\* value that is no object throws, and the catch leaves String(value)
valueAsStringOf(value) ==
    IF value.type = "object" /\ "uniqueName" \in DOMAIN value THEN value.uniqueName
    ELSE String(value)

\* a value that counts as false in a condition and in ||
falsy(v) == v = Undefined \/ v = StringValue("") \/ v = NumberValue(0)

\* const currentTags = workItem.fields["System.Tags"] || "" and
\* currentTags ? currentTags.split("; ") : []: the elements of the array made, or the
\* TypeError of a currentTags that is true and no string, which has no split
tagsArrayOf(workItem) ==
    Bind(fieldValue(workItem, "System.Tags"), LAMBDA currentTags :
        IF falsy(currentTags) THEN Return(<<>>)
        ELSE IF currentTags.type = "string" THEN Return(split(currentTags.value, "; "))
        ELSE Throw("TypeError: currentTags.split is not a function"))

\* the body of the loop of executeAction with a remove that emits only when the tag is
\* among the current tags
operationsForRemoveIfPresent(action, workItem, value, operations, memory) ==
    LET field == fieldOf(action.assignableLeftOperand)
        fieldPath == "/fields/System." \o (IF field = <<>> THEN "undefined" ELSE field[1])
        valueAsString == valueAsStringOf(value)
        isTags == toLowerCase(field[1]) = codeUnits("tags")
        hasTag(tag) == tag = valueAsString
        keepTag(tag) == tag # valueAsString
        pushed(memoryBefore, written) ==
            Returned(operations,
                     push(memoryBefore, operations,
                          <<updateOperation(workItem, action, fieldPath, written)>>))
    IN  CASE action.operator = "set" -> pushed(memory, valueAsString)
          [] action.operator \in {"add", "remove"} /\ field = <<>> ->
               Thrown("TypeError: Cannot read properties of undefined (reading 'toLowerCase')",
                      memory)
          [] action.operator = "add" /\ ~isTags -> pushed(memory, valueAsString)
          [] action.operator = "add" /\ isTags ->
               Bind(tagsArrayOf(workItem), LAMBDA made :
                   IF ~made.ok THEN Thrown(made.error, memory)
                   ELSE
                   Bind(newArray(memory, made.value), LAMBDA tagsArray :
                       IF SelectSeq(made.value, hasTag) # <<>>
                       THEN Returned(operations, tagsArray.memory)
                       ELSE
                       Bind(push(tagsArray.memory, tagsArray.array, <<valueAsString>>),
                            LAMBDA withTag :
                           pushed(withTag, join(elements(withTag, tagsArray.array), "; ")))))
          [] action.operator = "remove" /\ isTags ->
               Bind(tagsArrayOf(workItem), LAMBDA made :
                   IF ~made.ok THEN Thrown(made.error, memory)
                   ELSE
                   Bind(newArray(memory, made.value), LAMBDA tagsArray :
                   Bind(newArray(tagsArray.memory, SelectSeq(made.value, keepTag)),
                        LAMBDA filteredTags :
                       IF SelectSeq(made.value, hasTag) = <<>>
                       THEN Returned(operations, filteredTags.memory)
                       ELSE pushed(filteredTags.memory,
                                   join(elements(filteredTags.memory, filteredTags.array),
                                        "; ")))))
          [] OTHER -> Returned(operations, memory)

\* the body of "for (const workItem of targetWorkItems)" in executeAction: what it
\* pushes to operations for one target, with the arrays it makes on the way. The field
\* of a target that has none is written as undefined in the path, and has no
\* toLowerCase for add and remove to call
operationsFor(action, workItem, value, operations, memory) ==
    LET field == fieldOf(action.assignableLeftOperand)
        fieldPath == "/fields/System." \o (IF field = <<>> THEN "undefined" ELSE field[1])
        valueAsString == valueAsStringOf(value)
        isTags == toLowerCase(field[1]) = codeUnits("tags")
        hasTag(tag) == tag = valueAsString
        keepTag(tag) == tag # valueAsString
        pushed(memoryBefore, written) ==
            Returned(operations,
                     push(memoryBefore, operations,
                          <<updateOperation(workItem, action, fieldPath, written)>>))
    IN  CASE action.operator = "set" -> pushed(memory, valueAsString)
          [] action.operator \in {"add", "remove"} /\ field = <<>> ->
               Thrown("TypeError: Cannot read properties of undefined (reading 'toLowerCase')",
                      memory)
          [] action.operator = "add" /\ ~isTags -> pushed(memory, valueAsString)
          [] action.operator = "add" /\ isTags ->
               Bind(tagsArrayOf(workItem), LAMBDA made :
                   IF ~made.ok THEN Thrown(made.error, memory)
                   ELSE
                   Bind(newArray(memory, made.value), LAMBDA tagsArray :
                       IF SelectSeq(made.value, hasTag) # <<>>
                       THEN Returned(operations, tagsArray.memory)
                       ELSE
                       Bind(push(tagsArray.memory, tagsArray.array, <<valueAsString>>),
                            LAMBDA withTag :
                           pushed(withTag, join(elements(withTag, tagsArray.array), "; ")))))
          [] action.operator = "remove" /\ isTags ->
               Bind(tagsArrayOf(workItem), LAMBDA made :
                   IF ~made.ok THEN Thrown(made.error, memory)
                   ELSE
                   Bind(newArray(memory, made.value), LAMBDA tagsArray :
                   Bind(newArray(tagsArray.memory, SelectSeq(made.value, keepTag)),
                        LAMBDA filteredTags :
                       pushed(filteredTags.memory,
                              join(elements(filteredTags.memory, filteredTags.array),
                                   "; ")))))
          [] OTHER -> Returned(operations, memory)

RECURSIVE flatten(_)
flatten(seqs) == IF Len(seqs) = 0 THEN <<>> ELSE Head(seqs) \o flatten(Tail(seqs))

\* the loop "for (const workItem of targetWorkItems)" of executeAction from target k on
RECURSIVE operationsFrom(_, _, _, _, _, _)
operationsFrom(action, value, targetWorkItems, k, operations, memory) ==
    IF k > Len(elements(memory, targetWorkItems)) THEN Returned(operations, memory)
    ELSE
    Bind(operationsFor(action, elements(memory, targetWorkItems)[k], value, operations,
                       memory),
         LAMBDA done :
        IF ~done.ok THEN done
        ELSE operationsFrom(action, value, targetWorkItems, k + 1, operations, done.memory))

\* the loop over the targets with the value resolved anew for each target, the target
\* taken for the implicit item
RECURSIVE operationsPerTargetFrom(_, _, _, _, _, _, _, _)
operationsPerTargetFrom(action, triggeringWorkItem, parentWorkItem, childWorkItems, targetWorkItems, k, operations, memory) ==
    IF k > Len(elements(memory, targetWorkItems)) THEN Returned(operations, memory)
    ELSE
    Bind(resolveOperand(action.valueToAssign, elements(memory, targetWorkItems)[k],
                        triggeringWorkItem, parentWorkItem,
                        elements(memory, childWorkItems)),
         LAMBDA value :
    Bind(IF ~value.ok \/ value.value = Undefined THEN Returned(operations, memory)
         ELSE operationsFor(action, elements(memory, targetWorkItems)[k], value.value,
                            operations, memory),
         LAMBDA done :
        IF ~done.ok THEN done
        ELSE operationsPerTargetFrom(action, triggeringWorkItem, parentWorkItem,
                                     childWorkItems, targetWorkItems, k + 1, operations,
                                     done.memory)))

\* executeAction with the value resolved anew for each target
executeActionValuePerTarget(action, triggeringWorkItem, parentWorkItem, childWorkItems, memory) ==
    Bind(newArray(memory, <<>>), LAMBDA operations :
    Bind(resolveTargetWorkItems(action.assignableLeftOperand, triggeringWorkItem,
                                parentWorkItem, childWorkItems, operations.memory),
         LAMBDA targetWorkItems :
    IF ~targetWorkItems.ok THEN targetWorkItems
    ELSE operationsPerTargetFrom(action, triggeringWorkItem, parentWorkItem, childWorkItems,
                                 targetWorkItems.value, 1, operations.array,
                                 targetWorkItems.memory)))

\* executeAction: the array operations that it returns
executeAction(action, triggeringWorkItem, parentWorkItem, childWorkItems, memory) ==
    Bind(newArray(memory, <<>>), LAMBDA operations :
    Bind(resolveTargetWorkItems(action.assignableLeftOperand, triggeringWorkItem,
                                parentWorkItem, childWorkItems, operations.memory),
         LAMBDA targetWorkItems :
    IF ~targetWorkItems.ok THEN targetWorkItems
    ELSE
    Bind(resolveOperand(action.valueToAssign, triggeringWorkItem, triggeringWorkItem,
                        parentWorkItem, elements(targetWorkItems.memory, childWorkItems)),
         LAMBDA value :
    IF ~value.ok THEN Thrown(value.error, targetWorkItems.memory)
    ELSE IF value.value = Undefined
    THEN Returned(operations.array, targetWorkItems.memory)
    ELSE operationsFrom(action, value.value, targetWorkItems.value, 1, operations.array,
                        targetWorkItems.memory))))

\* the loop "for (const action of rule.then)" of executeRule from action k on:
\* updateOperations.push(...operations) for the operations of each action
RECURSIVE executeActionsFrom(_, _, _, _, _, _, _)
executeActionsFrom(rule, k, triggeringWorkItem, parentWorkItem, childWorkItems, updates, memory) ==
    IF k > Len(elements(memory, rule.then)) THEN Returned(updates, memory)
    ELSE
    Bind(executeAction(elements(memory, rule.then)[k], triggeringWorkItem, parentWorkItem,
                       childWorkItems, memory),
         LAMBDA operations :
        IF ~operations.ok THEN operations
        ELSE executeActionsFrom(rule, k + 1, triggeringWorkItem, parentWorkItem,
                                childWorkItems, updates,
                                push(operations.memory, updates,
                                     elements(operations.memory, operations.value))))

\* executeRule on the last action of the then list only
executeRuleLastActionOnly(rule, triggeringWorkItem, parentWorkItem, childWorkItems, memory) ==
    Bind(newArray(memory, <<>>), LAMBDA updates :
        executeActionsFrom(rule, Len(elements(memory, rule.then)), triggeringWorkItem,
                           parentWorkItem, childWorkItems, updates.array,
                           updates.memory))

\* executeRule(rule, triggeringWorkItem, parentWorkItem, childWorkItems): the array
\* updateOperations that it returns; rule.then and childWorkItems are references
executeRule(rule, triggeringWorkItem, parentWorkItem, childWorkItems, memory) ==
    Bind(newArray(memory, <<>>), LAMBDA updates :
        executeActionsFrom(rule, 1, triggeringWorkItem, parentWorkItem, childWorkItems,
                           updates.array, updates.memory))

\* a rule as a method holds it: its then list by reference
held(rule) == [rule EXCEPT !.then = <<"then">>]

\* executeRule called on a rule and an item context: what the caller gets
operationsOf(rule, triggeringWorkItem, parentWorkItem, childWorkItems) ==
    returnedBy(executeRule(held(rule), triggeringWorkItem, parentWorkItem,
                           <<"childWorkItems">>, memoryOf(rule.then, childWorkItems)))

\* resolveTargetWorkItems called on an operand and an item context: what the caller gets
targetsOf(operand, triggeringWorkItem, parentWorkItem, childWorkItems) ==
    returnedBy(resolveTargetWorkItems(operand, triggeringWorkItem, parentWorkItem,
                                      <<"childWorkItems">>, memoryOf(<<>>, childWorkItems)))

-----------------------------------------------------------------------------
(* Azure DevOps dispatch *)

\* op[flag] === v, false when the operation leaves the flag undefined
hasFlag(op, flag, v) == flag \in DOMAIN op /\ op[flag] = v

\* sendUpdateOperations on the first operation's flags only
sendUpdateOperationsFirstOnly(operations) ==
    [url |-> operations[1].url,
     suppressNotifications |->
         IF hasFlag(operations[1], "suppressNotifications", FALSE) THEN FALSE ELSE TRUE,
     bypassRules |-> IF hasFlag(operations[1], "bypassRules", TRUE) THEN TRUE ELSE FALSE,
     operations |-> operations]

\* sendUpdateOperations(adoPat, operations, context): the url and the two flags it
\* computes for the group, with the operations it logs (the axios.patch call that
\* would use them is commented out in the source)
sendUpdateOperations(operations) ==
    [url |-> operations[1].url,
     suppressNotifications |->
         IF \E k \in 1..Len(operations) : hasFlag(operations[k], "suppressNotifications", FALSE)
         THEN FALSE ELSE TRUE,
     bypassRules |->
         IF \E k \in 1..Len(operations) : hasFlag(operations[k], "bypassRules", TRUE)
         THEN TRUE ELSE FALSE,
     operations |-> operations]

\* the loop "for (const operation of updateOperations)" of performOperations from
\* operation k on. groupedOperations is an object literal: for a url that has the name
\* of a member of Object.prototype, groupedOperations[operation.url] is that member,
\* which is true and has no push, and the call of push throws. grouped holds the keys in
\* the order they were made, and the array of each key
RECURSIVE groupOperationsFrom(_, _, _)
groupOperationsFrom(operations, k, grouped) ==
    IF k > Len(operations) THEN Return(grouped)
    ELSE
    Bind(operations[k], LAMBDA operation :
        IF operation.url \in ObjectPrototypeMembers
        THEN Throw("TypeError: groupedOperations[operation.url].push is not a function")
        ELSE groupOperationsFrom(
                 operations, k + 1,
                 IF operation.url \in DOMAIN grouped.arrays
                 THEN [grouped EXCEPT !.arrays[operation.url] = Append(@, operation)]
                 ELSE [keys |-> Append(grouped.keys, operation.url),
                       arrays |-> (operation.url :> <<operation>>) @@ grouped.arrays]))

\* whether the string is an array index: the decimal form, without leading zeros, of an
\* integer from 0 to 2^32 - 2
isArrayIndex(key) ==
    /\ Len(key) \in 1..10
    /\ \A i \in 1..Len(key) : includes(digits, charAt(key, i))
    /\ Len(key) > 1 => charAt(key, 1) # "0"
    /\ Len(key) = 10 =>
           \/ key = "4294967294"
           \/ \E i \in 1..10 :
                  /\ SubSeq(key, 1, i - 1) = SubSeq("4294967294", 1, i - 1)
                  /\ charCode(charAt(key, i)) < charCode(charAt("4294967294", i))

\* whether the array index a is a smaller integer than the array index b
indexBefore(a, b) ==
    \/ Len(a) < Len(b)
    \/ /\ Len(a) = Len(b)
       /\ \E i \in 1..Len(a) :
              /\ SubSeq(a, 1, i - 1) = SubSeq(b, 1, i - 1)
              /\ charCode(charAt(a, i)) < charCode(charAt(b, i))

\* the keys that "for (const url in groupedOperations)" visits, in its order: the keys
\* that are array indices in ascending order of the integers, then the other keys in
\* the order they were made
forInKeys(keys) ==
    LET isIndex(k) == isArrayIndex(keys[k])
        isOther(k) == ~isArrayIndex(keys[k])
        positions == [k \in 1..Len(keys) |-> k]
    IN  Bind(SelectSeq(positions, isIndex), LAMBDA indexes :
        Bind(SelectSeq(positions, isOther), LAMBDA others :
            [g \in 1..Len(indexes) |->
                keys[CHOOSE k \in 1..Len(keys) :
                        /\ isIndex(k)
                        /\ Cardinality({j \in 1..Len(keys) :
                                           isIndex(j) /\ indexBefore(keys[j], keys[k])})
                               = g - 1]]
            \o [g \in 1..Len(others) |-> keys[others[g]]]))

\* performOperations(adoPat, updateOperations, context): the calls of
\* sendUpdateOperations it makes, in order, or the error it ends with
performOperations(operations) ==
    IF Len(operations) = 0 THEN Return(<<>>)
    ELSE
    Bind(groupOperationsFrom(operations, 1, [keys |-> <<>>, arrays |-> EmptyObject]),
         LAMBDA groupedOperations :
        IF ~groupedOperations.ok THEN groupedOperations
        ELSE
        Bind(forInKeys(groupedOperations.value.keys), LAMBDA urls :
            Return([g \in 1..Len(urls) |->
                       sendUpdateOperations(groupedOperations.value.arrays[urls[g]])])))

-----------------------------------------------------------------------------
(* Work items and rule texts the runs are drawn from *)

workItemUrl(id) == "https://ado/wit/workItems/" \o numberToString(id)

\* a WorkItem: id, url and fields; relations is optional
WorkItem(id, fields) == [id |-> id, url |-> workItemUrl(id), fields |-> fields]

\* the work item with a relations array
withRelations(workItem, relations) == workItem @@ [relations |-> relations]

\* the relation to the child with the given id
childRelation(id) ==
    [rel |-> "System.LinkTypes.Hierarchy-Forward", url |-> workItemUrl(id),
     attributes |-> [name |-> "Child"]]

\* a relation to a work item that is not a child
relatedRelation(id) ==
    [rel |-> "System.LinkTypes.Related", url |-> workItemUrl(id),
     attributes |-> [name |-> "Related"]]

\* a relation without attributes
bareRelation(id) == [rel |-> "System.LinkTypes.Hierarchy-Forward", url |-> workItemUrl(id)]

\* the fields of a work item with a type, a state and a title
Fields(type, state, title) ==
    ("System.WorkItemType" :> StringValue(type)) @@ ("System.State" :> StringValue(state))
    @@ ("System.Title" :> StringValue(title))

Tags(tags) == "System.Tags" :> StringValue(tags)

storyParent == WorkItem(1, Fields("User Story", "New", "Story"))

bugParent == WorkItem(1, Fields("Bug", "Active", "Story"))

taskParent == WorkItem(1, Fields("Task", "New", "Story"))

activeTask == WorkItem(3, Fields("Task", "Active", "Dev Task"))

closedTask == WorkItem(3, Fields("Task", "Closed", "Dev Task"))

testTask == WorkItem(2, Fields("Task", "Closed", "Test Task") @@ Tags("a; Touched"))

\* a task with a field of its own that has the name of a member of Object.prototype
otherTask ==
    WorkItem(4, Fields("Task", "Active", "Test Task 2") @@ ("constructor" :> StringValue("x")))

\* the relations arrays of the parents fetched
RelationsAnswers ==
    {<<>>,
     <<childRelation(2), relatedRelation(5), bareRelation(6), childRelation(3)>>,
     <<childRelation(3), childRelation(4), childRelation(2)>>}

\* what getParentWorkItem answers: undefined, or the parent fetched, with or without
\* a relations array
ParentAnswers ==
    {<<>>, <<withRelations(taskParent, <<>>)>>, <<storyParent>>, <<bugParent>>}
    \cup {<<withRelations(storyParent, relations)>> : relations \in RelationsAnswers}
    \cup {<<withRelations(bugParent, <<childRelation(3), childRelation(2)>>)>>}

\* what getWorkItem answers for the triggering item
TriggeringAnswers == {<<>>, <<activeTask>>, <<closedTask>>}

\* the work items the server holds, by url
ServerItems ==
    (workItemUrl(2) :> testTask) @@ (workItemUrl(3) :> activeTask) @@ (workItemUrl(4) :> otherTask)

\* what getWorkItem answers for the url of a child: undefined, or the item fetched
ChildAnswers(url) == {<<>>} \cup (IF url \in DOMAIN ServerItems THEN {<<ServerItems[url]>>} ELSE {})

\* the errors axios.get(dslRulesPath) rejects with
FetchErrors == {"AxiosError: Network Error", "AxiosError: Request failed with status code 404"}

EventTypes == {"workitem.updated", "workitem.created"}

\* the largest number of rules in a rule text of the handler runs
MaxRules == 2

RuleBlocks ==
    {"rule \"Activate\":\n  when State is \"Active\"\n  then set parent.State = \"Active\"\n",
     "rule \"Touch\":\n  when me.Title contains \"Dev\" and parent.State is not \"Closed\"\n"
         \o "  then add \"Touched\" to children.Tags\n",
     "rule \"Never\":\n  when State is \"Done\"\n  then set State = \"Done\"\n",
     "rule \"BadPattern\":\n  when Title matches \"*\"\n  then set parent.Title = Title\n",
     "rule \"Malformed\"\n  when State is \"Active\"\n  then set parent.State = \"Active\"\n"}

\* the sequences of at most n elements of S
RECURSIVE SeqsUpTo(_, _)
SeqsUpTo(S, n) ==
    IF n = 0 THEN {<<>>}
    ELSE LET shorter == SeqsUpTo(S, n - 1)
         IN  shorter \cup {Append(q, x) : q \in {r \in shorter : Len(r) = n - 1}, x \in S}

\* the rule texts axios.get(dslRulesPath) may answer
RuleTexts == {join(blocks, "") : blocks \in SeqsUpTo(RuleBlocks, MaxRules)}

\* parser.parse(dslRules), tabulated for the rule texts
parsed == [text \in RuleTexts |-> parse(text)]

-----------------------------------------------------------------------------
(* OnWorkItemUpdated *)

isSupportedEventType(serviceHook) == serviceHook.eventType = "workitem.updated"

\* isRequirementWorkItem without the check of the type
isRequirementWorkItemAnyType(workItem) == "System.WorkItemType" \in DOMAIN workItem.fields

isRequirementWorkItem(workItem) ==
    \/ fieldValue(workItem, "System.WorkItemType") = StringValue("User Story")
    \/ fieldValue(workItem, "System.WorkItemType") = StringValue("Bug")

\* the items of an invocation; childRelations are the relations of the parent that
\* getChildWorkItems has still to fetch
NoContext ==
    [triggeringWorkItem |-> <<>>, parentWorkItem |-> <<>>, childWorkItems |-> <<>>,
     childRelations |-> <<>>]

NoResult == [ok |-> TRUE]

\* the handler returns { status }
Respond(status) == response' = status /\ pc' = "done"

Init ==
    /\ pc = "start"
    /\ env \in [hasPat : BOOLEAN, hasRules : BOOLEAN, eventType : EventTypes]
    /\ dslText = ""
    /\ lines = <<>>
    /\ currentIndex = 0
    /\ rules = <<>>
    /\ ruleIndex = 0
    /\ evaluated = <<>>
    /\ executed = <<>>
    /\ updateOperations = <<>>
    /\ sent = <<>>
    /\ response = 0
    /\ ctx = NoContext
    /\ result = NoResult

\* the X-ADO-PAT and X-ADO-RULES header checks
CheckHeaders ==
    /\ pc = "start"
    /\ IF ~env.hasPat \/ ~env.hasRules
       THEN Respond(400)
       ELSE pc' = "fetchRules" /\ UNCHANGED response
    /\ UNCHANGED <<dslText, lines, currentIndex, rules, env, ruleIndex, evaluated, executed,
                   updateOperations, sent, ctx, result>>

\* await axios.get(dslRulesPath): the rule text, or the rejection that ends the
\* invocation
FetchRules ==
    /\ pc = "fetchRules"
    /\ \/ \E text \in RuleTexts :
             dslText' = text /\ pc' = "readBody" /\ UNCHANGED result
       \/ \E error \in FetchErrors :
             result' = Throw(error) /\ pc' = "thrown" /\ UNCHANGED dslText
    /\ UNCHANGED <<lines, currentIndex, rules, env, ruleIndex, evaluated, executed,
                   updateOperations, sent, response, ctx>>

\* await request.json(): the service hook, or the rejection when the body is not JSON
ReadBody ==
    /\ pc = "readBody"
    /\ \/ pc' = "checkEventType" /\ UNCHANGED result
       \/ result' = Throw("SyntaxError: Unexpected token in JSON") /\ pc' = "thrown"
    /\ UNCHANGED <<dslText, lines, currentIndex, rules, env, ruleIndex, evaluated, executed,
                   updateOperations, sent, response, ctx>>

\* await isSupportedEventType(serviceHook) and its check
CheckEventType ==
    /\ pc = "checkEventType"
    /\ IF ~isSupportedEventType(env)
       THEN Respond(400)
       ELSE pc' = "getParent" /\ UNCHANGED response
    /\ UNCHANGED <<dslText, lines, currentIndex, rules, env, ruleIndex, evaluated, executed,
                   updateOperations, sent, ctx, result>>

\* await getParentWorkItem(...) and the two checks of the parent
GetParentWorkItem ==
    /\ pc = "getParent"
    /\ \E parentWorkItem \in ParentAnswers :
          /\ ctx' = [ctx EXCEPT !.parentWorkItem = parentWorkItem]
          /\ IF parentWorkItem = <<>> THEN Respond(400)
             ELSE IF ~isRequirementWorkItem(parentWorkItem[1]) THEN Respond(400)
             ELSE pc' = "getTriggering" /\ UNCHANGED response
    /\ UNCHANGED <<dslText, lines, currentIndex, rules, env, ruleIndex, evaluated, executed,
                   updateOperations, sent, result>>

\* await getWorkItem(...) for the triggering item and its check
GetTriggeringWorkItem ==
    /\ pc = "getTriggering"
    /\ \E triggeringWorkItem \in TriggeringAnswers :
          /\ ctx' = [ctx EXCEPT !.triggeringWorkItem = triggeringWorkItem]
          /\ IF triggeringWorkItem = <<>> THEN Respond(400)
             ELSE pc' = "getChildren" /\ UNCHANGED response
    /\ UNCHANGED <<dslText, lines, currentIndex, rules, env, ruleIndex, evaluated, executed,
                   updateOperations, sent, result>>

isChildRelation(relation) ==
    /\ relation.rel = "System.LinkTypes.Hierarchy-Forward"
    /\ "attributes" \in DOMAIN relation
    /\ "name" \in DOMAIN relation.attributes
    /\ relation.attributes.name = "Child"

\* getChildWorkItems(...) up to its first await: the child relations of the parent, or
\* the TypeError of reading the relations of a parent that has none
GetChildWorkItems ==
    /\ pc = "getChildren"
    /\ IF "relations" \notin DOMAIN ctx.parentWorkItem[1]
       THEN /\ result' = Throw("TypeError: Cannot read properties of undefined (reading 'filter')")
            /\ pc' = "thrown"
            /\ UNCHANGED ctx
       ELSE \E childRelations \in {SelectSeq(ctx.parentWorkItem[1].relations, isChildRelation)} :
               /\ ctx' = [ctx EXCEPT !.childRelations = childRelations, !.childWorkItems = <<>>]
               /\ pc' = IF Len(childRelations) = 0 THEN "parse" ELSE "getChild"
               /\ UNCHANGED result
    /\ UNCHANGED <<dslText, lines, currentIndex, rules, env, ruleIndex, evaluated, executed,
                   updateOperations, sent, response>>

\* one iteration of the loop of getChildWorkItems: await getWorkItem(...) for the next
\* child relation; the item is kept if it was fetched
GetChildWorkItem ==
    /\ pc = "getChild"
    /\ \E childWorkItem \in ChildAnswers(Head(ctx.childRelations).url) :
          ctx' = [ctx EXCEPT !.childRelations = Tail(ctx.childRelations),
                             !.childWorkItems = ctx.childWorkItems \o childWorkItem]
    /\ pc' = IF Len(ctx.childRelations) = 1 THEN "parse" ELSE "getChild"
    /\ UNCHANGED <<dslText, lines, currentIndex, rules, env, ruleIndex, evaluated, executed,
                   updateOperations, sent, response, result>>

\* parser.parse(dslRules): the rules, or the error that ends the invocation
ParseRules ==
    /\ pc = "parse"
    /\ \E parsedRules \in {parsed[dslText]} :
          IF parsedRules.ok
          THEN rules' = parsedRules.rules /\ pc' = "rules" /\ UNCHANGED result
          ELSE result' = parsedRules /\ pc' = "thrown" /\ UNCHANGED rules
    /\ UNCHANGED <<dslText, lines, currentIndex, env, ruleIndex, evaluated, executed,
                   updateOperations, sent, response, ctx>>

\* the body of the loop without its break
ruleIterationNoBreak(rule, triggeringWorkItem, parentWorkItem, childWorkItems) ==
    Bind(evaluateRule(rule, triggeringWorkItem, parentWorkItem, childWorkItems),
         LAMBDA isApplicable :
    IF ~isApplicable.ok
    THEN [pc |-> "thrown", executed |-> FALSE, operations |-> <<>>, error |-> isApplicable]
    ELSE IF ~isApplicable.value
    THEN [pc |-> "rules", executed |-> FALSE, operations |-> <<>>]
    ELSE
    Bind(operationsOf(rule, triggeringWorkItem, parentWorkItem, childWorkItems),
         LAMBDA operations :
    IF ~operations.ok
    THEN [pc |-> "thrown", executed |-> TRUE, operations |-> <<>>, error |-> operations]
    ELSE [pc |-> "rules", executed |-> TRUE, operations |-> operations.value]))

\* the body of "for (const rule of rules)": whether executeRule is called, the
\* operations it returns and where control goes (on to the next rule, out of the loop
\* by break, or out of the handler by the error thrown)
ruleIteration(rule, triggeringWorkItem, parentWorkItem, childWorkItems) ==
    Bind(evaluateRule(rule, triggeringWorkItem, parentWorkItem, childWorkItems),
         LAMBDA isApplicable :
    IF ~isApplicable.ok
    THEN [pc |-> "thrown", executed |-> FALSE, operations |-> <<>>, error |-> isApplicable]
    ELSE IF ~isApplicable.value
    THEN [pc |-> "rules", executed |-> FALSE, operations |-> <<>>]
    ELSE
    Bind(operationsOf(rule, triggeringWorkItem, parentWorkItem, childWorkItems),
         LAMBDA operations :
    IF ~operations.ok
    THEN [pc |-> "thrown", executed |-> TRUE, operations |-> <<>>, error |-> operations]
    ELSE [pc |-> "break", executed |-> TRUE, operations |-> operations.value]))

\* one iteration of the loop over the rules, with await performOperations when the
\* rule is applicable and executeRule returned; an error of performOperations ends the
\* handler as an error of the engine does
EvaluateNextRule ==
    /\ pc = "rules"
    /\ ruleIndex < Len(rules)
    /\ \E iteration \in {ruleIteration(rules[ruleIndex + 1], ctx.triggeringWorkItem[1],
                                         ctx.parentWorkItem, ctx.childWorkItems)} :
       \E performed \in {IF iteration.executed /\ iteration.pc # "thrown"
                          THEN performOperations(iteration.operations)
                          ELSE Return(<<>>)} :
           /\ evaluated' = Append(evaluated, ruleIndex)
           /\ executed' = IF iteration.executed THEN Append(executed, ruleIndex) ELSE executed
           /\ updateOperations' = updateOperations \o iteration.operations
           /\ sent' = IF performed.ok THEN sent \o performed.value ELSE sent
           /\ pc' = IF performed.ok THEN iteration.pc ELSE "thrown"
           /\ ruleIndex' = IF performed.ok /\ iteration.pc = "rules" THEN ruleIndex + 1
                           ELSE ruleIndex
           /\ result' = IF iteration.pc = "thrown" THEN iteration.error
                        ELSE IF ~performed.ok THEN performed
                        ELSE result
    /\ UNCHANGED <<dslText, lines, currentIndex, rules, env, response, ctx>>

\* the end of the loop (no rule left, or break) and return { status: 200 }
Finish ==
    /\ pc = "break" \/ (pc = "rules" /\ ~(ruleIndex < Len(rules)))
    /\ Respond(200)
    /\ UNCHANGED <<dslText, lines, currentIndex, rules, env, ruleIndex, evaluated, executed,
                   updateOperations, sent, ctx, result>>

Next ==
    \/ CheckHeaders
    \/ FetchRules
    \/ ReadBody
    \/ CheckEventType
    \/ GetParentWorkItem
    \/ GetTriggeringWorkItem
    \/ GetChildWorkItems
    \/ GetChildWorkItem
    \/ ParseRules
    \/ EvaluateNextRule
    \/ Finish

Spec == Init /\ [][Next]_vars

-----------------------------------------------------------------------------
(* DSLParser.parse, one rule at a time *)

\* the largest number of lines in a text handed to parse
MaxLines == 4

\* the lines the texts are made of
TextLines ==
    {"rule \"A\":", "rule \"B\"", "rule", "  when State is \"x\"",
     "  then set parent.State = \"x\"", "  then foo", ""}

DslTexts == {join(ls, "\n") : ls \in SeqsUpTo(TextLines, MaxLines)}

InitParser ==
    /\ pc = "parse"
    /\ dslText \in DslTexts
    /\ lines = <<>>
    /\ currentIndex = 0
    /\ rules = <<>>
    /\ env = [hasPat |-> FALSE, hasRules |-> FALSE, eventType |-> ""]
    /\ ruleIndex = 0
    /\ evaluated = <<>>
    /\ executed = <<>>
    /\ updateOperations = <<>>
    /\ sent = <<>>
    /\ response = 0
    /\ ctx = NoContext
    /\ result = NoResult

\* parse(dslText) up to its loop: this.lines, this.currentIndex = 0, rules = []
ParseBegin ==
    /\ pc = "parse"
    /\ lines' = parseLines(dslText)
    /\ currentIndex' = 0
    /\ rules' = <<>>
    /\ pc' = "parseLoop"
    /\ UNCHANGED <<dslText, env, ruleIndex, evaluated, executed, updateOperations, sent,
                   response, ctx, result>>

\* one iteration of while (this.currentIndex < this.lines.length): parseRule(), and
\* rules.push(rule) when it returns one; the error it throws ends parse and leaves
\* currentIndex where parseRule, parseWhenConditions or parseThenActions had brought it
ParseRule ==
    /\ pc = "parseLoop"
    /\ currentIndex < Len(lines)
    /\ \E r \in {parseRule(lines, currentIndex)} :
          IF r.ok
          THEN /\ rules' = rules \o r.rule
               /\ currentIndex' = r.index
               /\ UNCHANGED <<pc, result>>
          ELSE /\ result' = r
               /\ pc' = "thrown"
               /\ currentIndex' = r.index
               /\ UNCHANGED rules
    /\ UNCHANGED <<dslText, lines, env, ruleIndex, evaluated, executed, updateOperations,
                   sent, response, ctx>>

\* return rules
ParseReturn ==
    /\ pc = "parseLoop"
    /\ ~(currentIndex < Len(lines))
    /\ result' = [ok |-> TRUE, rules |-> rules]
    /\ pc' = "returned"
    /\ UNCHANGED <<dslText, lines, currentIndex, rules, env, ruleIndex, evaluated, executed,
                   updateOperations, sent, response, ctx>>

NextParser ==
    \/ ParseBegin
    \/ ParseRule
    \/ ParseReturn

SpecParser == InitParser /\ [][NextParser]_vars

-----------------------------------------------------------------------------
(* DSLParser.parse, one loop iteration at a time *)

\* the lines of the texts of which the loops are followed: a rule line, a when line
\* with two conditions, a then line with two actions
LoopLines ==
    {"rule \"A\":", "when a is b and c is d", "then set a = b add \"c\" to d"}

LoopTexts == {join(ls, "\n") : ls \in SeqsUpTo(LoopLines, MaxLines)}

InitLoops ==
    /\ pc = "parse"
    /\ dslText \in LoopTexts
    /\ lines = <<>>
    /\ currentIndex = 0
    /\ rules = <<>>
    /\ env = [hasPat |-> FALSE, hasRules |-> FALSE, eventType |-> ""]
    /\ ruleIndex = 0
    /\ evaluated = <<>>
    /\ executed = <<>>
    /\ updateOperations = <<>>
    /\ sent = <<>>
    /\ response = 0
    /\ ctx = NoContext
    /\ result = NoResult

\* while (this.currentIndex < this.lines.length && !...startsWith('then ') && ... !== '')
whenLoopContinues ==
    /\ currentIndex < Len(lines)
    /\ ~currentLineStartsWith(lines, currentIndex, "then ")
    /\ trim(lines[currentIndex + 1]) # ""

\* while (this.currentIndex < this.lines.length && !...startsWith('rule ') && ... !== '')
thenLoopContinues ==
    /\ currentIndex < Len(lines)
    /\ ~startsWith(lines[currentIndex + 1], "rule ")
    /\ trim(lines[currentIndex + 1]) # ""

\* one iteration of the loop of parse, up to the loop of parseWhenConditions: parseRule
\* skips a line that is not a rule line, throws for a rule line without a name or without
\* a when line after it, and otherwise parseWhenConditions starts conditionText
RuleLine ==
    /\ pc = "parseLoop"
    /\ currentIndex < Len(lines)
    /\ IF ~startsWith(lines[currentIndex + 1], "rule ")
       THEN /\ currentIndex' = currentIndex + 1
            /\ UNCHANGED <<pc, result>>
       ELSE \E nameMatch \in {matchAnchored(lines[currentIndex + 1], nameRegex)} :
            IF ~nameMatch.ok
            THEN /\ result' = ParseError("Invalid rule syntax", currentIndex)
                 /\ pc' = "thrown"
                 /\ UNCHANGED currentIndex
            ELSE IF ~currentLineStartsWith(lines, currentIndex + 1, "when ")
            THEN /\ result' = ParseError("Expected 'when' clause", currentIndex + 1)
                 /\ pc' = "thrown"
                 /\ currentIndex' = currentIndex + 1
            ELSE /\ result' = [name |-> nameMatch.caps[1],
                               text |-> removePrefix(lines[currentIndex + 2],
                                                     whenPrefixRegex)]
                 /\ currentIndex' = currentIndex + 2
                 /\ pc' = "whenLoop"
    /\ UNCHANGED <<dslText, lines, rules, env, ruleIndex, evaluated, executed,
                   updateOperations, sent, response, ctx>>

\* one iteration of the multi-line loop of parseWhenConditions
WhenLoopIteration ==
    /\ pc = "whenLoop"
    /\ whenLoopContinues
    /\ result' = [result EXCEPT !.text = @ \o " " \o trim(lines[currentIndex + 1])]
    /\ currentIndex' = currentIndex + 1
    /\ UNCHANGED <<pc, dslText, lines, rules, env, ruleIndex, evaluated, executed,
                   updateOperations, sent, response, ctx>>

\* the multi-line loop ends and splitByAndPreservingQuotes(conditionText) starts
WhenLoopExit ==
    /\ pc = "whenLoop"
    /\ ~whenLoopContinues
    /\ result' = [name |-> result.name, text |-> result.text,
                  st |-> [i |-> 0, current |-> "", inQuotes |-> FALSE, parts |-> <<>>]]
    /\ pc' = "splitByAnd"
    /\ UNCHANGED <<dslText, lines, currentIndex, rules, env, ruleIndex, evaluated, executed,
                   updateOperations, sent, response, ctx>>

\* one iteration of while (i < text.length) of splitByAndPreservingQuotes
SplitByAndIteration ==
    /\ pc = "splitByAnd"
    /\ result.st.i < Len(result.text)
    /\ result' = [result EXCEPT !.st = splitByAndStep(result.text, @)]
    /\ UNCHANGED <<pc, dslText, lines, currentIndex, rules, env, ruleIndex, evaluated,
                   executed, updateOperations, sent, response, ctx>>

\* splitByAndPreservingQuotes returns, parseWhenConditions parses the parts and returns,
\* and parseThenActions throws without a then line or starts actionText
SplitByAndExit ==
    /\ pc = "splitByAnd"
    /\ ~(result.st.i < Len(result.text))
    /\ \E conditionParts \in
           {IF trim(result.st.current) # ""
            THEN Append(result.st.parts, trim(result.st.current))
            ELSE result.st.parts} :
          IF ~currentLineStartsWith(lines, currentIndex, "then ")
          THEN /\ result' = ParseError("Expected 'then' clause", currentIndex)
               /\ pc' = "thrown"
               /\ UNCHANGED currentIndex
          ELSE /\ result' = [name |-> result.name,
                             conditions |-> present([k \in 1..Len(conditionParts) |->
                                                parseCondition(trim(conditionParts[k]))]),
                             text |-> removePrefix(lines[currentIndex + 1],
                                                   thenPrefixRegex)]
               /\ currentIndex' = currentIndex + 1
               /\ pc' = "thenLoop"
    /\ UNCHANGED <<dslText, lines, rules, env, ruleIndex, evaluated, executed,
                   updateOperations, sent, response, ctx>>

\* one iteration of the multi-line loop of parseThenActions
ThenLoopIteration ==
    /\ pc = "thenLoop"
    /\ thenLoopContinues
    /\ result' = [result EXCEPT !.text = @ \o " " \o trim(lines[currentIndex + 1])]
    /\ currentIndex' = currentIndex + 1
    /\ UNCHANGED <<pc, dslText, lines, rules, env, ruleIndex, evaluated, executed,
                   updateOperations, sent, response, ctx>>

\* the multi-line loop ends and splitActions(actionText) starts
ThenLoopExit ==
    /\ pc = "thenLoop"
    /\ ~thenLoopContinues
    /\ result' = [name |-> result.name, conditions |-> result.conditions,
                  text |-> result.text,
                  st |-> [i |-> 0, current |-> "", actions |-> <<>>]]
    /\ pc' = "splitActions"
    /\ UNCHANGED <<dslText, lines, currentIndex, rules, env, ruleIndex, evaluated, executed,
                   updateOperations, sent, response, ctx>>

\* one iteration of while (i < text.length) of splitActions
SplitActionsIteration ==
    /\ pc = "splitActions"
    /\ result.st.i < Len(result.text)
    /\ result' = [result EXCEPT !.st = splitActionsStep(result.text, @)]
    /\ UNCHANGED <<pc, dslText, lines, currentIndex, rules, env, ruleIndex, evaluated,
                   executed, updateOperations, sent, response, ctx>>

\* splitActions returns, parseThenActions parses the parts and returns, parseRule returns
\* the rule and parse pushes it
SplitActionsExit ==
    /\ pc = "splitActions"
    /\ ~(result.st.i < Len(result.text))
    /\ \E actionParts \in
           {IF trim(result.st.current) # ""
            THEN Append(result.st.actions, trim(result.st.current))
            ELSE result.st.actions} :
          rules' = Append(rules,
                          [name |-> result.name,
                           when |-> result.conditions,
                           then |-> present([k \in 1..Len(actionParts) |->
                                                parseAction(trim(actionParts[k]))])])
    /\ result' = NoResult
    /\ pc' = "parseLoop"
    /\ UNCHANGED <<dslText, lines, currentIndex, env, ruleIndex, evaluated, executed,
                   updateOperations, sent, response, ctx>>

NextLoops ==
    \/ ParseBegin
    \/ RuleLine
    \/ WhenLoopIteration
    \/ WhenLoopExit
    \/ SplitByAndIteration
    \/ SplitByAndExit
    \/ ThenLoopIteration
    \/ ThenLoopExit
    \/ SplitActionsIteration
    \/ SplitActionsExit
    \/ ParseReturn

\* the parser runs on one thread: the step that is enabled is taken
SpecLoops == InitLoops /\ [][NextLoops]_vars /\ WF_vars(NextLoops)

-----------------------------------------------------------------------------
(* RuleEngine, one call at a time on a fixed item context *)

\* the largest number of child work items in an item context
MaxChildren == 2

\* the largest number of conditions in the when list of a rule handed to evaluateRule
MaxConditions == 2

\* a task that has neither a state nor a title
bareTask == WorkItem(5, "System.WorkItemType" :> StringValue("Task"))

ChildItems == {testTask, activeTask, otherTask}

EngineContexts ==
    [triggeringWorkItem : {<<activeTask>>, <<bareTask>>},
     parentWorkItem : {<<>>, <<storyParent>>},
     childWorkItems : SeqsUpTo(ChildItems, MaxChildren)]

Operators == {"matches", "not matches", "is", "is not", "contains", "starts with", "ends with"}

\* the operands of the conditions handed to evaluateCondition
ConditionOperands ==
    {parseOperand(text) : text \in
        {"\"Active\"", "\"*\"", "State", "me.Title", "parent.State", "Missing", "child.State",
         "child(State is \"Active\").Title", "child(Title matches \"*\").State"}}

\* the conditions of the rules handed to evaluateRule
RuleConditions ==
    {parseCondition(text)[1] : text \in
        {"State is \"Active\"", "me.Title contains \"Dev\"", "parent.State is not \"Closed\"",
         "Title matches \"*\"", "child(Title contains \"Test\").State is \"Closed\""}}

\* the operands handed to resolveOperand and resolveTargetWorkItems; the last is what
\* parseAction makes of a quoted target, a constant that has no object and no field
ObjectOperands ==
    {parseOperand(text) : text \in
        {"Title", "me.Title", "parent.Title", "child.Title", "children.Title",
         "child(State is \"Closed\").Title", "children(State is \"Closed\").Title",
         "child(Title contains \"Test\").State", "children(Title contains \"Test\").State",
         "child(State is me.State).Title", "children(State is not me.State).Id",
         "child(Title starts with parent.Title).Title",
         "children(Title matches \".*Task 2\").State",
         "child(constructor is \"x\").Title", "children(constructor is \"x\").Title", "\"x\""}}

InitEngine ==
    /\ pc = "engine"
    /\ ctx \in EngineContexts
    /\ result = NoResult
    /\ dslText = ""
    /\ lines = <<>>
    /\ currentIndex = 0
    /\ rules = <<>>
    /\ env = [hasPat |-> FALSE, hasRules |-> FALSE, eventType |-> ""]
    /\ ruleIndex = 0
    /\ evaluated = <<>>
    /\ executed = <<>>
    /\ updateOperations = <<>>
    /\ sent = <<>>
    /\ response = 0

\* ruleEngine.evaluateRule(rule, triggeringWorkItem, parentWorkItem, childWorkItems)
EvaluateRule ==
    /\ pc = "engine"
    /\ \E when \in SeqsUpTo(RuleConditions, MaxConditions) :
          result' = [call |-> "evaluateRule",
                     rule |-> [name |-> "R", when |-> when, then |-> <<>>],
                     returned |-> evaluateRule([name |-> "R", when |-> when, then |-> <<>>],
                                               ctx.triggeringWorkItem[1], ctx.parentWorkItem,
                                               ctx.childWorkItems)]
    /\ pc' = "returned"
    /\ UNCHANGED <<dslText, lines, currentIndex, rules, env, ruleIndex, evaluated,
                   executed, updateOperations, sent, response, ctx>>

\* evaluateCondition(condition, triggeringWorkItem, triggeringWorkItem, parentWorkItem,
\* childWorkItems), as evaluateRule calls it
EvaluateCondition ==
    /\ pc = "engine"
    /\ \E condition \in [leftOperand : ConditionOperands, operator : Operators,
                         rightOperand : ConditionOperands] :
          result' = [call |-> "evaluateCondition",
                     condition |-> condition,
                     returned |-> evaluateCondition(condition, ctx.triggeringWorkItem[1],
                                                    ctx.triggeringWorkItem[1],
                                                    ctx.parentWorkItem, ctx.childWorkItems)]
    /\ pc' = "returned"
    /\ UNCHANGED <<dslText, lines, currentIndex, rules, env, ruleIndex, evaluated,
                   executed, updateOperations, sent, response, ctx>>

\* resolveOperand(operand, triggeringWorkItem, triggeringWorkItem, parentWorkItem,
\* childWorkItems), as evaluateCondition and executeAction call it
ResolveOperand ==
    /\ pc = "engine"
    /\ \E operand \in ObjectOperands :
          result' = [call |-> "resolveOperand",
                     operand |-> operand,
                     returned |-> resolveOperand(operand, ctx.triggeringWorkItem[1],
                                                 ctx.triggeringWorkItem[1],
                                                 ctx.parentWorkItem, ctx.childWorkItems)]
    /\ pc' = "returned"
    /\ UNCHANGED <<dslText, lines, currentIndex, rules, env, ruleIndex, evaluated,
                   executed, updateOperations, sent, response, ctx>>

\* resolveTargetWorkItems(operand, triggeringWorkItem, parentWorkItem, childWorkItems)
ResolveTargetWorkItems ==
    /\ pc = "engine"
    /\ \E operand \in ObjectOperands :
          result' = [call |-> "resolveTargetWorkItems",
                     operand |-> operand,
                     returned |-> targetsOf(operand, ctx.triggeringWorkItem[1],
                                            ctx.parentWorkItem, ctx.childWorkItems)]
    /\ pc' = "returned"
    /\ UNCHANGED <<dslText, lines, currentIndex, rules, env, ruleIndex, evaluated,
                   executed, updateOperations, sent, response, ctx>>

NextEngine ==
    \/ EvaluateRule
    \/ EvaluateCondition
    \/ ResolveOperand
    \/ ResolveTargetWorkItems

SpecEngine == InitEngine /\ [][NextEngine]_vars

-----------------------------------------------------------------------------
(* performOperations on a list of update operations *)

\* the largest number of update operations handed to performOperations
MaxOps == 3

\* what an operation carries for suppressNotifications and bypassRules: nothing, or a value
FlagChoices == {<<>>, <<TRUE>>, <<FALSE>>}

\* the urls of the work items that have no url of the server: one with the name of a
\* member of Object.prototype, and two that are array indices
OtherUrls == {"constructor", "10", "9"}

\* an UpdateOperation for the work item with the given url
Operation(url, suppress, bypass) ==
    [url |-> url, op |-> "replace", path |-> "/fields/System.State",
     value |-> "Active"]
    @@ (IF suppress = <<>> THEN EmptyObject ELSE [suppressNotifications |-> suppress[1]])
    @@ (IF bypass = <<>> THEN EmptyObject ELSE [bypassRules |-> bypass[1]])

Operations ==
    {Operation(workItemUrl(id), suppress, bypass) :
         id \in {1, 2}, suppress \in FlagChoices, bypass \in FlagChoices}
    \cup {Operation(url, <<>>, <<>>) : url \in OtherUrls}

InitDispatch ==
    /\ pc = "dispatch"
    /\ updateOperations \in SeqsUpTo(Operations, MaxOps)
    /\ sent = <<>>
    /\ result = NoResult
    /\ ctx = NoContext
    /\ dslText = ""
    /\ lines = <<>>
    /\ currentIndex = 0
    /\ rules = <<>>
    /\ env = [hasPat |-> TRUE, hasRules |-> TRUE, eventType |-> "workitem.updated"]
    /\ ruleIndex = 0
    /\ evaluated = <<>>
    /\ executed = <<>>
    /\ response = 0

\* await performOperations(adoPat, updateOperations, context)
PerformOperations ==
    /\ pc = "dispatch"
    /\ \E performed \in {performOperations(updateOperations)} :
          /\ sent' = IF performed.ok THEN performed.value ELSE <<>>
          /\ result' = IF performed.ok THEN result ELSE performed
          /\ pc' = IF performed.ok THEN "returned" ELSE "thrown"
    /\ UNCHANGED <<dslText, lines, currentIndex, rules, env, ruleIndex, evaluated, executed,
                   updateOperations, response, ctx>>

NextDispatch == PerformOperations

SpecDispatch == InitDispatch /\ [][NextDispatch]_vars

-----------------------------------------------------------------------------
(* RuleEngine.executeRule on rules parsed from action statements *)

\* the largest number of actions in the then list of a rule handed to executeRule
MaxActions == 2

\* the action statements of the rules handed to executeRule
ExecuteActionTexts ==
    {"set with notifications children.AssignedTo = AssignedTo",
     "set with bypassRules child(State is \"Closed\").Title = parent.Title",
     "set parent.Custom = \"1\"",
     "set parent.AssignedTo = child(title matches \".*Release.*\").AssignedTo",
     "set parent.State = child(Title matches \"*\").State",
     "add with notifications \"Touched\" to children.Tags",
     "add \"x; y\" to me.Tags",
     "add \"Done\" to me.State",
     "set \"x\" = \"y\"",
     "add \"Seen\" to children(State is \"Closed\").Tags",
     "remove \"a\" from children.Tags",
     "remove \"a\" from parent.State"}

\* the statements of add and remove whose target is a constant, which has no field
ConstantTargetTexts == {"add \"y\" to \"x\"", "remove \"y\" from \"x\""}

\* the rules handed to executeRule: the actions are what parseAction gives for the
\* statements, the when list is empty; the statements of ConstantTargetTexts make rules
\* of one action
ExecuteRules ==
    Bind([text \in ExecuteActionTexts |-> parseAction(text)[1]], LAMBDA actionOf :
        {[name |-> "R", when |-> <<>>, then |-> [k \in 1..Len(texts) |-> actionOf[texts[k]]]] :
            texts \in SeqsUpTo(ExecuteActionTexts, MaxActions) \ {<<>>}})
    \cup {[name |-> "R", when |-> <<>>, then |-> <<parseAction(text)[1]>>] :
              text \in ConstantTargetTexts}

\* a task whose System.Tags is a number, as the JSON of a work item can hold one
countedTask == WorkItem(9, Fields("Task", "Active", "Counted Task") @@ ("System.Tags" :> NumberValue(7)))

\* a task that is assigned to a user and has no tags
releaseTask ==
    WorkItem(8, Fields("Task", "Active", "Release Task")
                @@ ("System.AssignedTo" :> AssignedToValue("Ann", "ann@example.com")))

\* the item contexts of the calls: a triggering item without tags that is assigned to a
\* user, a parent or none, and children of which one is closed and tagged, one is
\* assigned to a user and one has tags that are no string
ExecuteContexts ==
    [triggeringWorkItem :
         {<<WorkItem(3, Fields("Task", "Active", "Dev Task")
                        @@ ("System.AssignedTo" :> AssignedToValue("Bob", "bob@example.com")))>>},
     parentWorkItem : {<<>>, <<storyParent>>},
     childWorkItems :
         SeqsUpTo({testTask, releaseTask}, MaxChildren)
         \cup {<<countedTask>>, <<testTask, countedTask>>}]

InitExecute ==
    /\ pc = "calls"
    /\ ctx \in ExecuteContexts
    /\ result = NoResult
    /\ dslText = ""
    /\ lines = <<>>
    /\ currentIndex = 0
    /\ rules = <<>>
    /\ env = [hasPat |-> FALSE, hasRules |-> FALSE, eventType |-> ""]
    /\ ruleIndex = 0
    /\ evaluated = <<>>
    /\ executed = <<>>
    /\ updateOperations = <<>>
    /\ sent = <<>>
    /\ response = 0

\* ruleEngine.evaluateRule(rule, ...) as the handler calls it before executeRule;
\* evaluateRule and the methods under it hold no statement that writes
CallEvaluateRule ==
    /\ pc = "calls"
    /\ \E rule \in ExecuteRules :
          result' = [call |-> "evaluateRule", given |-> rule, rule |-> rule,
                     returned |-> evaluateRule(rule, ctx.triggeringWorkItem[1],
                                               ctx.parentWorkItem, ctx.childWorkItems)]
    /\ pc' = "evaluated"
    /\ UNCHANGED <<dslText, lines, currentIndex, rules, env, ruleIndex, evaluated, executed,
                   updateOperations, sent, response, ctx>>

\* ruleEngine.executeRule(rule, ...), on any rule or on the rule just evaluated: the
\* then list of the rule and the child list are what the memory holds of them after
\* the call
CallExecuteRule ==
    /\ pc \in {"calls", "evaluated"}
    /\ \E rule \in IF pc = "calls" THEN ExecuteRules ELSE {result.rule} :
          \E call \in {executeRule(held(rule), ctx.triggeringWorkItem[1], ctx.parentWorkItem,
                                    <<"childWorkItems">>,
                                    memoryOf(rule.then, ctx.childWorkItems))} :
              /\ result' = [call |-> "executeRule", given |-> rule,
                            rule |-> [rule EXCEPT !.then = call.memory.then],
                            returned |-> returnedBy(call)]
              /\ ctx' = [ctx EXCEPT !.childWorkItems = call.memory.childWorkItems]
    /\ pc' = "returned"
    /\ UNCHANGED <<dslText, lines, currentIndex, rules, env, ruleIndex, evaluated, executed,
                   updateOperations, sent, response>>

NextExecute ==
    \/ CallEvaluateRule
    \/ CallExecuteRule

SpecExecute == InitExecute /\ [][NextExecute]_vars

-----------------------------------------------------------------------------
(* DSLParser.parse on rule texts written as in DSLParserTests, under SpecStatements *)

\* the option words written after with; none for a statement without the segment
OptionWords ==
    {<<>>, <<"notifications">>, <<"bypassRules">>, <<"suppressNotifications">>,
     <<"suppressNotifications", "bypassRules">>}

\* action statements without their options: the keyword, the text after the options,
\* and the target and value operands written in that text
StatementBodies ==
    {[operator |-> "set", rest |-> "parent.State = \"Active\"",
      target |-> [object |-> "parent", field |-> "State"], value |-> [value |-> "Active"]],
     [operator |-> "set", rest |-> "parent.AssignedTo = me.AssignedTo",
      target |-> [object |-> "parent", field |-> "AssignedTo"],
      value |-> [object |-> "me", field |-> "AssignedTo"]],
     [operator |-> "add", rest |-> "\"Done\" to me.Tags",
      target |-> [object |-> "me", field |-> "Tags"], value |-> [value |-> "Done"]],
     [operator |-> "add", rest |-> "\"to set up\" to Tags",
      target |-> [object |-> "implicit", field |-> "Tags"], value |-> [value |-> "to set up"]],
     [operator |-> "remove", rest |-> "\"In Progress\" from me.Tags",
      target |-> [object |-> "me", field |-> "Tags"], value |-> [value |-> "In Progress"]]}

Statements == [options : OptionWords, body : StatementBodies]

\* the text of a statement: <keyword> [with <opts>] <rest>
statementText(statement) ==
    statement.body.operator
    \o (IF statement.options = <<>> THEN "" ELSE " with " \o join(statement.options, " "))
    \o " " \o statement.body.rest

\* what a text is written from: the conditions of the when clause, the statements of
\* the then clause, what separates two statements (a space, a line break with the
\* indentation of the tests, or a blank line before it), and whether a second rule follows
StatementSources ==
    [conditions : {<<"me.Title contains \"Dev\"", "me.State is \"Active\"">>},
     actions : SeqsUpTo(Statements, MaxActions) \ {<<>>},
     layout : {" ", "\n         ", "\n\n         "},
     followed : BOOLEAN]

\* the text of a source, laid out as the texts of DSLParserTests
ruleText(source) ==
    "\nrule \"R1\":\n    when " \o join(source.conditions, " and ")
    \o "\n    then "
    \o join([k \in 1..Len(source.actions) |-> statementText(source.actions[k])],
            source.layout)
    \o (IF source.followed
        THEN "\n\nrule \"Testing Complete\":\n    when me.Title matches \".*Test.*\" and me.State is \"Closed\"\n    then add \"Ready for Deployment\" to parent.Tags"
        ELSE "")
    \o "\n        "

InitStatements ==
    /\ pc = "parse"
    /\ dslText \in {ruleText(source) : source \in StatementSources}
    /\ lines = <<>>
    /\ currentIndex = 0
    /\ rules = <<>>
    /\ env = [hasPat |-> FALSE, hasRules |-> FALSE, eventType |-> ""]
    /\ ruleIndex = 0
    /\ evaluated = <<>>
    /\ executed = <<>>
    /\ updateOperations = <<>>
    /\ sent = <<>>
    /\ response = 0
    /\ ctx = NoContext
    /\ result = NoResult

SpecStatements == InitStatements /\ [][NextParser]_vars

-----------------------------------------------------------------------------
(* DSLParser on the text of a when clause, under SpecConditions *)

\* operand texts of the grammar written on the left of an operator: field names with
\* and without a scope, and a child reference with a nested condition
LeftOperandTexts ==
    {"me.Title", "State", "me.History", "child(State is \"Closed\").Title"}

\* operand texts written on the right: quoted literals and a child reference
RightOperandTexts ==
    {"\"Dev\"", "\"a and b\"", "child(title matches \".*(Test|QA).*\").State"}

OperandTexts == LeftOperandTexts \cup RightOperandTexts

\* the words written between two operands: the seven operators, and a word that is
\* none of them
OperatorWords == Operators \cup {"equals"}

\* what a condition chunk is written from
ConditionSources ==
    [left : LeftOperandTexts, operator : OperatorWords, right : RightOperandTexts]

\* the text of a chunk: <operand> <op> <operand>
conditionText(source) == source.left \o " " \o source.operator \o " " \o source.right

\* the chunks written after the first chunk of a clause
FollowingConditions ==
    {[left |-> "\"a and b\"", operator |-> "contains", right |-> "me.Title"],
     [left |-> "me.Title", operator |-> "equals", right |-> "\"Dev\""]}

\* a chunk whose left operand is the field named and: written after a separator, its
\* first word and the space before and after it make the token once more
ChunkThatBeginsWithAnd == [left |-> "and", operator |-> "is", right |-> "\"Dev\""]

\* a chunk that is the word and three times: written after a separator it makes a run
\* of four tokens that overlap one after the other
ChunkOfAnds == [left |-> "and", operator |-> "and", right |-> "and"]

\* what a when clause is written from: its chunks, and what is written between two of
\* them (the token " and ", alone or after one more space); the longest clauses are
\* written after one first chunk only
ClauseSources ==
    [first : ConditionSources,
     rest : SeqsUpTo(FollowingConditions, MaxConditions - 1),
     separator : {" and ", "  and "}]
    \cup [first : {[left |-> "State", operator |-> "is", right |-> "\"a and b\""]},
          rest : {chunks \in SeqsUpTo(FollowingConditions
                                          \cup {ChunkThatBeginsWithAnd, ChunkOfAnds},
                                      MaxConditions) : Len(chunks) = MaxConditions},
          separator : {" and ", "  and "}]

chunksOf(source) == <<source.first>> \o source.rest

\* conditionText of parseWhenConditions for a source
clauseText(source) ==
    join([k \in 1..Len(chunksOf(source)) |-> conditionText(chunksOf(source)[k])],
         source.separator)

\* a rule text with the clause as its when clause
ruleAround(clause) ==
    "rule \"R\":\n    when " \o clause \o "\n    then set parent.State = \"Active\""

InitConditions ==
    /\ pc = "clause"
    /\ dslText \in {clauseText(source) : source \in ClauseSources} \cup OperandTexts
    /\ lines = <<>>
    /\ currentIndex = 0
    /\ rules = <<>>
    /\ env = [hasPat |-> FALSE, hasRules |-> FALSE, eventType |-> ""]
    /\ ruleIndex = 0
    /\ evaluated = <<>>
    /\ executed = <<>>
    /\ updateOperations = <<>>
    /\ sent = <<>>
    /\ response = 0
    /\ ctx = NoContext
    /\ result = NoResult

\* const conditionParts = this.splitByAndPreservingQuotes(conditionText)
CallSplitByAndPreservingQuotes ==
    /\ pc = "clause"
    /\ \E parts \in {splitByAndPreservingQuotes(dslText)} :
          result' = [call |-> "splitByAndPreservingQuotes", returned |-> parts]
    /\ pc' = "returned"
    /\ UNCHANGED <<dslText, lines, currentIndex, rules, env, ruleIndex, evaluated, executed,
                   updateOperations, sent, response, ctx>>

\* const condition = this.parseCondition(part.trim())
CallParseCondition ==
    /\ pc = "clause"
    /\ \E condition \in {parseCondition(trim(dslText))} :
          result' = [call |-> "parseCondition", returned |-> condition]
    /\ pc' = "returned"
    /\ UNCHANGED <<dslText, lines, currentIndex, rules, env, ruleIndex, evaluated, executed,
                   updateOperations, sent, response, ctx>>

\* this.parseOperand(text)
CallParseOperand ==
    /\ pc = "clause"
    /\ \E operand \in {parseOperand(dslText)} :
          result' = [call |-> "parseOperand", returned |-> operand]
    /\ pc' = "returned"
    /\ UNCHANGED <<dslText, lines, currentIndex, rules, env, ruleIndex, evaluated, executed,
                   updateOperations, sent, response, ctx>>

\* parser.parse(dslRules) for a rule with the clause
CallParse ==
    /\ pc = "clause"
    /\ \E parsedRules \in {parse(ruleAround(dslText))} :
          result' = [call |-> "parse", returned |-> parsedRules]
    /\ pc' = "returned"
    /\ UNCHANGED <<dslText, lines, currentIndex, rules, env, ruleIndex, evaluated, executed,
                   updateOperations, sent, response, ctx>>

NextConditions ==
    \/ CallSplitByAndPreservingQuotes
    \/ CallParseCondition
    \/ CallParseOperand
    \/ CallParse

SpecConditions == InitConditions /\ [][NextConditions]_vars

-----------------------------------------------------------------------------
(* Claims about DSLParser.parse, under SpecParser *)

\* C7: every Rule in the list returned by a successful parse has a non-empty then
\* list; a then-clause from which no action can be parsed makes parse fail.
ThenListNeverEmpty ==
    pc = "returned" => \A k \in 1..Len(result.rules) : Len(result.rules[k].then) > 0

\* a line whose first word is the keyword rule
firstWordIsRule(line) ==
    line = "rule" \/ (startsWith(line, "rule") /\ Len(line) > 4 /\ isWhiteSpace(charAt(line, 5)))

\* a line of the exact form rule "<name>": with a non-empty name
wellFormedHeader(line) == matchAnchored(line, nameRegex).ok

\* the lines after header h that come before the next rule header or the end
linesUnder(ls, h) ==
    {k \in (h + 1)..Len(ls) : \A j \in (h + 1)..k : ~wellFormedHeader(ls[j])}

\* header h is followed, before the next header or the end, by a line beginning
\* with when and, after it, a line beginning with then
hasOwnClauses(ls, h) ==
    \E w \in linesUnder(ls, h), t \in linesUnder(ls, h) :
        w < t /\ startsWith(ls[w], "when") /\ startsWith(ls[t], "then")

\* C8: parse fails for every text in which some rule header is not followed, before
\* the next rule header or the end of the text, by a when clause and then a then
\* clause of that same rule.
MissingClauseFailsParse ==
    pc = "returned" =>
        \A h \in 1..Len(lines) : wellFormedHeader(lines[h]) => hasOwnClauses(lines, h)

\* C9: parse fails for every text that contains a malformed rule header, a line
\* whose first word is rule but that has not the form rule "<name>": with a
\* non-empty name; such a line is never skipped silently.
MalformedHeaderFailsParse ==
    pc = "returned" =>
        \A k \in 1..Len(lines) : firstWordIsRule(lines[k]) => wellFormedHeader(lines[k])

-----------------------------------------------------------------------------
(* Claims about RuleEngine, under SpecEngine *)

isCall(name) == pc = "returned" /\ "call" \in DOMAIN result /\ result.call = name

\* evaluateCondition on condition k of the rule that evaluateRule was called with
conditionResult(k) ==
    evaluateCondition(result.rule.when[k], ctx.triggeringWorkItem[1],
                      ctx.triggeringWorkItem[1], ctx.parentWorkItem, ctx.childWorkItems)

\* C3: evaluateRule returns true exactly when every condition of the when list evaluates
\* true with the triggering item as the implicit item (so an empty list gives true), and
\* it stops at the first false condition: when the conditions before a false one are all
\* true it returns false, whatever a later condition would do.
EvaluateRuleIsShortCircuitAnd ==
    isCall("evaluateRule") =>
        LET n == Len(result.rule.when)
        IN  /\ (result.returned = Return(TRUE))
                   <=> (\A k \in 1..n : conditionResult(k) = Return(TRUE))
            /\ \A k \in 1..n :
                   (/\ conditionResult(k) = Return(FALSE)
                    /\ \A j \in 1..(k - 1) : conditionResult(j) = Return(TRUE))
                   => result.returned = Return(FALSE)

\* a rule of two conditions that evaluateRule found true
TwoConditionRuleIsTrue ==
    /\ isCall("evaluateRule")
    /\ Len(result.rule.when) = 2
    /\ result.rule.when[1] # result.rule.when[2]
    /\ result.returned = Return(TRUE)

\* the operand resolves to undefined in the context of the call
unresolved(operand) ==
    resolveOperand(operand, ctx.triggeringWorkItem[1], ctx.triggeringWorkItem[1],
                   ctx.parentWorkItem, ctx.childWorkItems) = Return(Undefined)

\* the resolution of the operand returns, whatever the value
resolutionReturns(operand) ==
    resolveOperand(operand, ctx.triggeringWorkItem[1], ctx.triggeringWorkItem[1],
                   ctx.parentWorkItem, ctx.childWorkItems).ok

\* C4: for each of the seven operators, a condition of which either operand is unresolved
\* (field missing, parent absent, no child matching, empty child list) evaluates false
\* and raises no error.
UnresolvedOperandEvaluatesFalse ==
    (/\ isCall("evaluateCondition")
     /\ unresolved(result.condition.leftOperand) \/ unresolved(result.condition.rightOperand))
    => result.returned = Return(FALSE)

\* C4, the part that holds: the same, for the conditions of which the resolution of both
\* operands returns.
UnresolvedOperandEvaluatesFalseWhenBothResolutionsReturn ==
    (/\ isCall("evaluateCondition")
     /\ resolutionReturns(result.condition.leftOperand)
     /\ resolutionReturns(result.condition.rightOperand)
     /\ unresolved(result.condition.leftOperand) \/ unresolved(result.condition.rightOperand))
    => result.returned = Return(FALSE)

\* the attribute key a field name stands for: the key the alias table gives for it, and
\* the name itself when the table has no entry for it
attributeKey(field) == IF field \in DOMAIN fieldMap THEN fieldMap[field] ELSE field

\* the value an operand of a nested condition stands for while child is the child under
\* test: a constant is itself, an unprefixed field is the child's, me.* is the triggering
\* item's and parent.* the parent's
scopedValue(operand, child) ==
    IF "value" \in DOMAIN operand THEN StringValue(operand.value)
    ELSE LET item == CASE operand.object = "implicit" -> <<child>>
                       [] operand.object = "me" -> ctx.triggeringWorkItem
                       [] operand.object = "parent" -> ctx.parentWorkItem
         IN  IF item = <<>> THEN Undefined
             ELSE IF operand.field = "Id" THEN NumberValue(item[1].id)
             ELSE fieldValue(item[1], attributeKey(operand.field))

\* the comparison an operator stands for, on two strings
compares(operator, left, right) ==
    CASE operator = "matches" -> regExpTest(right, left) = Return(TRUE)
      [] operator = "not matches" -> regExpTest(right, left) = Return(FALSE)
      [] operator = "is" -> left = right
      [] operator = "is not" -> left # right
      [] operator = "contains" -> includes(left, right)
      [] operator = "starts with" -> startsWith(left, right)
      [] operator = "ends with" -> endsWith(left, right)

\* every nested condition of the operand holds for the child
childPasses(operand, child) ==
    \A k \in 1..Len(conditionsOf(operand)) :
        LET condition == conditionsOf(operand)[k]
            left == scopedValue(condition.leftOperand, child)
            right == scopedValue(condition.rightOperand, child)
        IN  /\ left # Undefined
            /\ right # Undefined
            /\ compares(condition.operator, String(left), String(right))

\* no operand of a nested condition of the operand is a me.* operand
readsNoTriggeringField(operand) ==
    \A k \in 1..Len(conditionsOf(operand)) :
        \A side \in {conditionsOf(operand)[k].leftOperand, conditionsOf(operand)[k].rightOperand} :
            "value" \in DOMAIN side \/ side.object # "me"

\* the items a triggering item may be
TriggeringItems == {item[1] : item \in {c.triggeringWorkItem : c \in EngineContexts}} \cup ChildItems

\* C5: an operand child(<conditions>).field resolves to the field of the first child, in
\* the order the children were supplied, for which every nested condition holds with its
\* unprefixed fields read from that child and its me.* and parent.* operands read from
\* the triggering item and the parent (undefined when there is no such child); when no
\* nested condition reads me.*, the triggering item has no part in the result.
ChildConditionsReadTheChild ==
    (/\ isCall("resolveOperand")
     /\ objectOf(result.operand) = <<"child">>
     /\ Len(conditionsOf(result.operand)) > 0)
    => LET children == ctx.childWorkItems
           matching == {c \in 1..Len(children) : childPasses(result.operand, children[c])}
       IN  /\ result.returned =
                  IF matching = {} THEN Return(Undefined)
                  ELSE Return(fieldValue(children[Min(matching)],
                                         attributeKey(result.operand.field)))
           /\ readsNoTriggeringField(result.operand)
                  => \A other \in TriggeringItems :
                         resolveOperand(result.operand, other, other, ctx.parentWorkItem,
                                        children) = result.returned

\* neither the field of the operand nor a field of its nested conditions has the name of
\* a member of Object.prototype
namesNoMember(operand) ==
    /\ operand.field \notin ObjectPrototypeMembers
    /\ \A k \in 1..Len(conditionsOf(operand)) :
           \A side \in {conditionsOf(operand)[k].leftOperand,
                         conditionsOf(operand)[k].rightOperand} :
               "value" \in DOMAIN side \/ side.field \notin ObjectPrototypeMembers

\* C5, the part that holds: the same, for the operands of which no field has the name of
\* a member of Object.prototype.
ChildConditionsReadTheChildUnderOtherNames ==
    (/\ isCall("resolveOperand")
     /\ objectOf(result.operand) = <<"child">>
     /\ Len(conditionsOf(result.operand)) > 0
     /\ namesNoMember(result.operand))
    => LET children == ctx.childWorkItems
           matching == {c \in 1..Len(children) : childPasses(result.operand, children[c])}
       IN  /\ result.returned =
                  IF matching = {} THEN Return(Undefined)
                  ELSE Return(fieldValue(children[Min(matching)],
                                         attributeKey(result.operand.field)))
           /\ readsNoTriggeringField(result.operand)
                  => \A other \in TriggeringItems :
                         resolveOperand(result.operand, other, other, ctx.parentWorkItem,
                                        children) = result.returned

\* child(State is "Closed").Title resolved for an active triggering item whose first
\* child is active too and whose second child is closed
SecondChildChosenByItsOwnState ==
    /\ isCall("resolveOperand")
    /\ result.operand = parseOperand("child(State is \"Closed\").Title")
    /\ ctx.triggeringWorkItem = <<activeTask>>
    /\ ctx.childWorkItems = <<activeTask, testTask>>
    /\ result.returned = Return(StringValue("Test Task"))

\* child(constructor is "x").Title resolved with a child whose field constructor is x:
\* no child is found
ChildWithTheFieldIsNotFound ==
    /\ isCall("resolveOperand")
    /\ result.operand = parseOperand("child(constructor is \"x\").Title")
    /\ \E c \in 1..Len(ctx.childWorkItems) :
           fieldValue(ctx.childWorkItems[c], "constructor") = StringValue("x")
    /\ result.returned = Return(Undefined)

\* a constant as the target of an action, with a parent and children at hand: the
\* triggering item
ConstantTargetIsTheTriggeringItem ==
    /\ isCall("resolveTargetWorkItems")
    /\ result.operand = parseOperand("\"x\"")
    /\ ctx.parentWorkItem # <<>>
    /\ ctx.childWorkItems # <<>>
    /\ result.returned = Return(ctx.triggeringWorkItem)

\* C6: as the target of an action, "children" resolves to every child satisfying the
\* nested conditions (every child when there are none), in the supplied order, and
\* "child" to the first such child only (the first child when there are no conditions,
\* no item when no child qualifies).
ChildrenTargetsAllChildTargetsFirst ==
    (isCall("resolveTargetWorkItems") /\ objectOf(result.operand) \in {<<"child">>, <<"children">>})
    => LET passes(child) == childPasses(result.operand, child)
           matching == SelectSeq(ctx.childWorkItems, passes)
       IN  result.returned =
               Return(IF result.operand.object = "children" THEN matching
                      ELSE IF matching = <<>> THEN <<>> ELSE <<matching[1]>>)

\* C6, the part that holds: the same, for the targets of which no field has the name of
\* a member of Object.prototype.
ChildrenTargetsAllChildTargetsFirstUnderOtherNames ==
    (/\ isCall("resolveTargetWorkItems")
     /\ objectOf(result.operand) \in {<<"child">>, <<"children">>}
     /\ namesNoMember(result.operand))
    => LET passes(child) == childPasses(result.operand, child)
           matching == SelectSeq(ctx.childWorkItems, passes)
       IN  result.returned =
               Return(IF result.operand.object = "children" THEN matching
                      ELSE IF matching = <<>> THEN <<>> ELSE <<matching[1]>>)

\* children(constructor is "x") as a target with a child whose field constructor is x:
\* no item
ChildrenWithTheFieldAreNoTarget ==
    /\ isCall("resolveTargetWorkItems")
    /\ result.operand = parseOperand("children(constructor is \"x\").Title")
    /\ \E c \in 1..Len(ctx.childWorkItems) :
           fieldValue(ctx.childWorkItems[c], "constructor") = StringValue("x")
    /\ result.returned = Return(<<>>)

\* children(Title contains "Test") as a target, with two children of such a title
ChildrenTargetIsTwoItems ==
    /\ isCall("resolveTargetWorkItems")
    /\ result.operand = parseOperand("children(Title contains \"Test\").State")
    /\ result.returned.ok
    /\ Len(result.returned.value) = 2

-----------------------------------------------------------------------------
(* Claims about sendUpdateOperations, under SpecDispatch *)

\* C10: every group of operations sent for one item is sent with suppressNotifications
\* false when at least one operation of the group has suppressNotifications false, and
\* true otherwise (also when no operation sets it), and with bypassRules true when at
\* least one operation has bypassRules true, and false otherwise.
DispatchFlagsAreMerged ==
    pc = "returned" =>
        \A g \in 1..Len(sent) :
            LET batch == sent[g].operations
                anyNotifies == \E k \in 1..Len(batch) :
                                   /\ "suppressNotifications" \in DOMAIN batch[k]
                                   /\ batch[k].suppressNotifications = FALSE
                anyBypasses == \E k \in 1..Len(batch) :
                                   /\ "bypassRules" \in DOMAIN batch[k]
                                   /\ batch[k].bypassRules = TRUE
            IN  /\ Len(batch) > 0
                /\ \A k \in 1..Len(batch) : batch[k].url = sent[g].url
                /\ sent[g].suppressNotifications = ~anyNotifies
                /\ sent[g].bypassRules = anyBypasses

\* a group of two operations whose second operation alone asks to notify and to bypass
SecondOperationSetsTheFlags ==
    /\ pc = "returned"
    /\ Len(sent) = 1
    /\ Len(sent[1].operations) = 2
    /\ "suppressNotifications" \notin DOMAIN sent[1].operations[1]
    /\ "bypassRules" \notin DOMAIN sent[1].operations[1]
    /\ sent[1].suppressNotifications = FALSE
    /\ sent[1].bypassRules = TRUE

\* C11: performOperations makes one call of sendUpdateOperations per distinct url of the
\* list, and the call for a url carries exactly the operations of the list that have this
\* url, in their order in the list: no operation goes to another item's update, none is
\* sent twice or lost, and an empty list makes no call.
DispatchGroupsByUrl ==
    pc \in {"returned", "thrown"} =>
        LET urls == {updateOperations[k].url : k \in 1..Len(updateOperations)}
        IN  /\ Len(sent) = Cardinality(urls)
            /\ \A g \in 1..Len(sent) :
                   LET hasUrl(op) == op.url = sent[g].url
                   IN  /\ sent[g].url \in urls
                       /\ \A h \in 1..Len(sent) : h # g => sent[h].url # sent[g].url
                       /\ sent[g].operations = SelectSeq(updateOperations, hasUrl)

\* C11, the part that holds: the same, for the lists of which no url has the name of a
\* member of Object.prototype.
DispatchGroupsByUrlUnderOtherUrls ==
    (/\ pc \in {"returned", "thrown"}
     /\ \A k \in 1..Len(updateOperations) :
            updateOperations[k].url \notin ObjectPrototypeMembers) =>
        LET urls == {updateOperations[k].url : k \in 1..Len(updateOperations)}
        IN  /\ pc = "returned"
            /\ Len(sent) = Cardinality(urls)
            /\ \A g \in 1..Len(sent) :
                   LET hasUrl(op) == op.url = sent[g].url
                   IN  /\ sent[g].url \in urls
                       /\ \A h \in 1..Len(sent) : h # g => sent[h].url # sent[g].url
                       /\ sent[g].operations = SelectSeq(updateOperations, hasUrl)

\* an operation for an item of the server followed by one for the item whose url is
\* constructor: an error, and no update
UrlNamedConstructorSendsNothing ==
    /\ pc = "thrown"
    /\ Len(updateOperations) = 2
    /\ updateOperations[1].url = workItemUrl(1)
    /\ updateOperations[2].url = "constructor"
    /\ sent = <<>>
    /\ result = Throw("TypeError: groupedOperations[operation.url].push is not a function")

\* the operations for the items whose urls are 10 and 9, in this order, sent as the
\* update for 9 and then the update for 10
IndexUrlsSentInAscendingOrder ==
    /\ pc = "returned"
    /\ Len(updateOperations) = 2
    /\ updateOperations[1].url = "10"
    /\ updateOperations[2].url = "9"
    /\ Len(sent) = 2
    /\ sent[1].url = "9"
    /\ sent[2].url = "10"

\* three operations, the first and the third for one item and the second for another,
\* sent as two updates of which the first holds the first and the third operation
InterleavedOperationsGrouped ==
    /\ pc = "returned"
    /\ Len(updateOperations) = 3
    /\ updateOperations[1].url = updateOperations[3].url
    /\ updateOperations[1].url # updateOperations[2].url
    /\ updateOperations[1] # updateOperations[3]
    /\ Len(sent) = 2
    /\ sent[1].operations = <<updateOperations[1], updateOperations[3]>>
    /\ sent[2].operations = <<updateOperations[2]>>

-----------------------------------------------------------------------------
(* Claims about OnWorkItemUpdated, under Spec *)

\* evaluateRule on rule k (from 0) of the parsed rules, in the context of the invocation
ruleIsTrue(k) ==
    evaluateRule(rules[k + 1], ctx.triggeringWorkItem[1], ctx.parentWorkItem,
                 ctx.childWorkItems) = Return(TRUE)

\* the rules are evaluated in declared order, at most one is executed, it is the one
\* evaluated last and the first that is true
FirstMatchOnly ==
    LET n == Len(evaluated)
    IN  /\ evaluated = [k \in 1..n |-> k - 1]
        /\ Len(executed) <= 1
        /\ executed # <<>> => executed[1] = evaluated[n] /\ ruleIsTrue(executed[1])
        /\ \A k \in 1..n : (executed = <<>> \/ k < n) => ~ruleIsTrue(evaluated[k])

\* C1: in every invocation the rules are evaluated in declared order and executeRule is
\* called for at most one of them, the first whose evaluateRule returns true; once a rule
\* was executed no rule is evaluated or executed any more, and no further operation is
\* produced or sent.
FirstMatchExclusive ==
    /\ []FirstMatchOnly
    /\ [][executed # <<>> => UNCHANGED <<evaluated, executed, updateOperations, sent>>]_vars

\* an invocation that ended after it executed the first of two rules that are both true
FirstOfTwoTrueRulesExecuted ==
    /\ pc = "done"
    /\ Len(rules) = 2
    /\ evaluated = <<0>>
    /\ executed = <<0>>
    /\ ruleIsTrue(1)
    /\ updateOperations # <<>>

\* C2: operations are produced or sent only in an invocation whose event type is
\* workitem.updated, whose parent was found and is a User Story or a Bug, whose
\* triggering item was fetched and in which a rule evaluated true; in every other
\* invocation there is no operation and nothing is sent.
UpdatesOnlyWhenARuleMatched ==
    (updateOperations # <<>> \/ sent # <<>>) =>
        /\ env.eventType = "workitem.updated"
        /\ ctx.parentWorkItem # <<>>
        /\ "System.WorkItemType" \in DOMAIN ctx.parentWorkItem[1].fields
        /\ ctx.parentWorkItem[1].fields["System.WorkItemType"]
               \in {StringValue("User Story"), StringValue("Bug")}
        /\ ctx.triggeringWorkItem # <<>>
        /\ \E k \in 1..Len(evaluated) : ruleIsTrue(evaluated[k])

\* an invocation that ended with status 200 after it sent the operations of a rule
UpdateSent ==
    /\ pc = "done"
    /\ response = 200
    /\ sent # <<>>
    /\ updateOperations # <<>>

-----------------------------------------------------------------------------
(* Claims about RuleEngine.executeRule, under SpecExecute *)

\* the System.Tags of the item is a string, or the item has none
tagsAreText(item) ==
    "System.Tags" \in DOMAIN item.fields => item.fields["System.Tags"].type = "string"

\* the entries of the item's tag list: its Tags split on "; ", none when it has no tags
\* or tags that are no string
tagEntries(item) ==
    IF \/ "System.Tags" \notin DOMAIN item.fields
       \/ item.fields["System.Tags"].type # "string"
       \/ item.fields["System.Tags"].value = ""
    THEN <<>>
    ELSE split(item.fields["System.Tags"].value, "; ")

\* the items an action with this target operand is applied to, in order: the triggering
\* item for me, for an unprefixed field and for a target that names no object, the
\* parent if there is one, the children that satisfy the nested conditions (the first
\* of them only for child)
targetItems(operand) ==
    LET passes(child) == childPasses(operand, child)
        matching == SelectSeq(ctx.childWorkItems, passes)
    IN  CASE objectOf(operand) = <<"parent">> -> ctx.parentWorkItem
          [] objectOf(operand) = <<"children">> -> matching
          [] objectOf(operand) = <<"child">> -> IF matching = <<>> THEN <<>> ELSE <<matching[1]>>
          [] OTHER -> ctx.triggeringWorkItem

\* the items after the operations that write a tag list were applied to them in order
RECURSIVE applyTagOperations(_, _)
applyTagOperations(items, operations) ==
    IF operations = <<>> THEN items
    ELSE applyTagOperations(
             [k \in 1..Len(items) |->
                 IF /\ items[k].url = Head(operations).url
                    /\ toLowerCase(Head(operations).path) = codeUnits("/fields/system.tags")
                 THEN [items[k] EXCEPT !.fields =
                          ("System.Tags" :> StringValue(Head(operations).value)) @@ @]
                 ELSE items[k]],
             Tail(operations))

\* the url, the op and the value of the operations
urlOpValue(operations) ==
    [k \in 1..Len(operations) |->
        [url |-> operations[k].url, op |-> operations[k].op, value |-> operations[k].value]]

\* the call was executeRule on a rule of one action with this operator on the field Tags
isTagAction(operator) ==
    /\ isCall("executeRule")
    /\ result.returned.ok
    /\ Len(result.given.then) = 1
    /\ result.given.then[1].operator = operator
    /\ fieldOf(result.given.then[1].assignableLeftOperand) = <<"Tags">>

\* what add emits for one item: nothing when the literal is an entry of its tag list,
\* else one replace of the entries followed by the literal
addEmits(item, literal) ==
    IF \E k \in 1..Len(tagEntries(item)) : tagEntries(item)[k] = literal THEN <<>>
    ELSE <<[url |-> item.url, op |-> "replace",
            value |-> join(Append(tagEntries(item), literal), "; ")]>>

\* C12, first part: add on Tags emits, per target item, nothing when the literal is an
\* entry of the item's tag list and otherwise one replace whose value is the entries
\* followed by the literal, joined with "; ".
AddTagEmitsOncePerItemWithoutIt ==
    isTagAction("add") =>
        LET action == result.given.then[1]
            targets == targetItems(action.assignableLeftOperand)
        IN  urlOpValue(result.returned.value)
                = flatten([k \in 1..Len(targets) |->
                              addEmits(targets[k], action.valueToAssign.value)])

\* C12: add on Tags emits per target item as stated above, and the same add run again on
\* the items to which the emitted values were applied emits nothing.
AddTagIsIdempotent ==
    isTagAction("add") =>
        /\ AddTagEmitsOncePerItemWithoutIt
        /\ operationsOf(result.given,
                        applyTagOperations(ctx.triggeringWorkItem, result.returned.value)[1],
                        applyTagOperations(ctx.parentWorkItem, result.returned.value),
                        applyTagOperations(ctx.childWorkItems, result.returned.value))
               = Return(<<>>)

\* the call was executeRule on a rule of one remove on the field Tags
isRemoveOfTag ==
    /\ isCall("executeRule")
    /\ Len(result.given.then) = 1
    /\ result.given.then[1].operator = "remove"
    /\ fieldOf(result.given.then[1].assignableLeftOperand) = <<"Tags">>

\* one replace per target item, with the entries of its tag list other than the literal,
\* in their order, joined with "; "
replacesWithoutTheLiteral(action) ==
    LET targets == targetItems(action.assignableLeftOperand)
        kept(entry) == entry # action.valueToAssign.value
    IN  [k \in 1..Len(targets) |->
            [url |-> targets[k].url, op |-> "replace",
             value |-> join(SelectSeq(tagEntries(targets[k]), kept), "; ")]]

\* on a field other than Tags, remove emits nothing and add emits what set emits
otherFieldsRemoveNothingAddSets ==
    (/\ isCall("executeRule")
     /\ Len(result.given.then) = 1
     /\ fieldOf(result.given.then[1].assignableLeftOperand) # <<>>
     /\ toLowerCase(result.given.then[1].assignableLeftOperand.field) # codeUnits("tags"))
    => /\ result.given.then[1].operator = "remove" => result.returned = Return(<<>>)
       /\ result.given.then[1].operator = "add" =>
              result.returned
                  = operationsOf([result.given EXCEPT !.then[1].operator = "set"],
                                 ctx.triggeringWorkItem[1], ctx.parentWorkItem,
                                 ctx.childWorkItems)

\* C13, as stated: remove on Tags emits exactly one replace per target item, whether or
\* not the literal is an entry of its tag list, with the entries other than the literal
\* in their order joined with "; "; on another field remove emits nothing, and add emits
\* what set emits.
RemoveTagAlwaysEmits ==
    /\ isRemoveOfTag =>
           /\ result.returned.ok
           /\ urlOpValue(result.returned.value)
                  = replacesWithoutTheLiteral(result.given.then[1])
    /\ otherFieldsRemoveNothingAddSets

\* C13, amended: remove on Tags emits exactly one replace per target item, whether or
\* not the literal is an entry of its tag list, with the entries other than the literal
\* in their order joined with "; ", when the System.Tags of every target item is a
\* string, absent or a false value; when the System.Tags of a target item is a true
\* value that is no string, the call raises a TypeError and emits nothing. On another
\* field remove emits nothing, and add emits what set emits.
RemoveTagEmitsForEachTagList ==
    /\ isRemoveOfTag =>
           LET targets == targetItems(result.given.then[1].assignableLeftOperand)
           IN  IF \A k \in 1..Len(targets) : tagsArrayOf(targets[k]).ok
               THEN /\ result.returned.ok
                    /\ urlOpValue(result.returned.value)
                           = replacesWithoutTheLiteral(result.given.then[1])
               ELSE result.returned = Throw("TypeError: currentTags.split is not a function")
    /\ otherFieldsRemoveNothingAddSets

\* remove "a" from children.Tags for a child whose System.Tags is the number 7: a
\* TypeError
RemoveFromCountedTagsRaises ==
    /\ isRemoveOfTag
    /\ ctx.childWorkItems = <<testTask, countedTask>>
    /\ result.returned = Throw("TypeError: currentTags.split is not a function")

\* remove "a" from children.Tags for a child tagged a and Touched and a child without
\* tags: one replace per child, also for the child that never had the tag
RemoveOfAbsentTagEmits ==
    /\ isTagAction("remove")
    /\ Len(ctx.childWorkItems) = 2
    /\ tagEntries(ctx.childWorkItems[1]) = <<"a", "Touched">>
    /\ tagEntries(ctx.childWorkItems[2]) = <<>>
    /\ urlOpValue(result.returned.value)
           = <<[url |-> ctx.childWorkItems[1].url, op |-> "replace", value |-> "Touched"],
               [url |-> ctx.childWorkItems[2].url, op |-> "replace", value |-> ""]>>

\* the suppressNotifications and bypassRules that a record carries
optionsOf(record) ==
    [flag \in DOMAIN record \cap {"suppressNotifications", "bypassRules"} |-> record[flag]]

\* the call was executeRule on a rule of set actions whose values all resolve
isSetRuleWithValues ==
    /\ isCall("executeRule")
    /\ result.returned.ok
    /\ \A k \in 1..Len(result.given.then) :
           /\ result.given.then[k].operator = "set"
           /\ resolutionReturns(result.given.then[k].valueToAssign)
           /\ ~unresolved(result.given.then[k].valueToAssign)

\* C14: for a rule of set actions with resolved values executeRule returns exactly one
\* replace per action and target item, ordered by the position of the action in the then
\* list and then by the position of the target among the children, each with the url of
\* its target and the options of its own action.
SetEmitsOnePerActionAndTarget ==
    isSetRuleWithValues =>
        LET then == result.given.then
            emitted(action) ==
                LET targets == targetItems(action.assignableLeftOperand)
                IN  [t \in 1..Len(targets) |->
                        [url |-> targets[t].url, op |-> "replace",
                         options |-> optionsOf(action.alterOptions)]]
            returned == result.returned.value
        IN  [k \in 1..Len(returned) |->
                [url |-> returned[k].url, op |-> returned[k].op,
                 options |-> optionsOf(returned[k])]]
                = flatten([k \in 1..Len(then) |-> emitted(then[k])])

\* a set with notifications on two children followed by a set on the parent: three
\* operations, of which only the first two carry the option
TwoSetsThreeOperations ==
    /\ isSetRuleWithValues
    /\ Len(result.given.then) = 2
    /\ Len(ctx.childWorkItems) = 2
    /\ ctx.childWorkItems[1] # ctx.childWorkItems[2]
    /\ ctx.parentWorkItem # <<>>
    /\ Len(result.returned.value) = 3
    /\ result.returned.value[1].url = ctx.childWorkItems[1].url
    /\ result.returned.value[2].url = ctx.childWorkItems[2].url
    /\ result.returned.value[3].url = ctx.parentWorkItem[1].url
    /\ optionsOf(result.returned.value[1]) = [suppressNotifications |-> FALSE]
    /\ optionsOf(result.returned.value[3]) = EmptyObject

\* set "x" = "y", whose target is a constant without object and field: one replace of
\* the triggering item, on the path written for the field undefined
ConstantTargetWritesTheTriggeringItem ==
    /\ isCall("executeRule")
    /\ result.given.then = <<parseAction("set \"x\" = \"y\"")[1]>>
    /\ result.returned
           = Return(<<[url |-> ctx.triggeringWorkItem[1].url, op |-> "replace",
                       path |-> "/fields/System.undefined", value |-> "y"]>>)

\* add "y" to "x", whose target is a constant: the call raises where it reads the
\* field of the target
AddToConstantTargetRaises ==
    /\ isCall("executeRule")
    /\ result.given.then = <<parseAction("add \"y\" to \"x\"")[1]>>
    /\ result.returned
           = Throw("TypeError: Cannot read properties of undefined (reading 'toLowerCase')")

\* C15: the path of every operation emitted for an action is "/fields/" followed by the
\* key the alias table of resolveOperand gives for the target field of the action, and by
\* the field name itself when the table has no entry for it.
PathIsTheKeyConditionsRead ==
    (/\ isCall("executeRule")
     /\ result.returned.ok
     /\ Len(result.given.then) = 1
     /\ fieldOf(result.given.then[1].assignableLeftOperand) # <<>>) =>
        LET field == result.given.then[1].assignableLeftOperand.field
            key == IF field \in DOMAIN fieldMap THEN fieldMap[field] ELSE field
        IN  \A k \in 1..Len(result.returned.value) :
                result.returned.value[k].path = "/fields/" \o key

\* C16: no call of evaluateRule or executeRule changes the triggering item, the parent,
\* the children or their order, or the rule: what the memory holds of the child list and
\* of the then list after the call is what the call was given, and changes exist as
\* returned operations only.
CallsLeaveInputsUnchanged ==
    [][pc' \in {"evaluated", "returned"} => ctx' = ctx /\ result'.rule = result'.given]_vars

\* an add of a tag that was emitted for two tagged or untagged children selected by
\* no condition, after an evaluateRule of the same rule
AddEmittedForTwoChildren ==
    /\ isCall("executeRule")
    /\ result.returned.ok
    /\ result.given.then = <<parseAction("add with notifications \"Touched\" to children.Tags")[1]>>
    /\ Len(ctx.childWorkItems) = 2
    /\ Len(result.returned.value) >= 1
    /\ \E k \in 1..2 : tagEntries(ctx.childWorkItems[k]) = <<"a", "Touched">>

\* C20: the documented action set parent.AssignedTo = child(title matches
\* ".*Release.*").AssignedTo, with a parent and a child whose title matches the pattern
\* and that is assigned to a user, emits one replace of the parent's AssignedTo with the
\* unique name of that user.
DocumentedLowercaseTitleSelectsTheChild ==
    (/\ isCall("executeRule")
     /\ result.given.then
            = <<parseAction("set parent.AssignedTo = child(title matches \".*Release.*\").AssignedTo")[1]>>
     /\ ctx.parentWorkItem # <<>>
     /\ \E k \in 1..Len(ctx.childWorkItems) :
            /\ includes(ctx.childWorkItems[k].fields["System.Title"].value, "Release")
            /\ "System.AssignedTo" \in DOMAIN ctx.childWorkItems[k].fields)
    => result.returned
           = Return(<<[url |-> ctx.parentWorkItem[1].url, op |-> "replace",
                       path |-> "/fields/System.AssignedTo", value |-> "ann@example.com"]>>)

-----------------------------------------------------------------------------
(* Claims about DSLParser.parse on the texts of the tests, under SpecStatements *)

\* every text with a source it is written from
RenderedSources == {<<ruleText(source), source>> : source \in StatementSources}

\* a source the text handed to parse is written from
written == (CHOOSE rendered \in RenderedSources : rendered[1] = dslText)[2]

\* the statements of the then clause of the text are separated by a blank line
blankLineInThenClause == Len(written.actions) > 1 /\ written.layout = "\n\n         "

\* C17: parse returns one Rule per rule header of the text, in the order of the text,
\* each with the name of its header, one Condition per condition of its when clause and
\* one Action per statement of its then clause, on one line or on several, and each
\* action has the operator, the target scope and field and the value operand of its
\* statement.
ParseKeepsEveryStatement ==
    (pc \in {"returned", "thrown"} /\ ~blankLineInThenClause) =>
        /\ pc = "returned"
        /\ Len(result.rules) = (IF written.followed THEN 2 ELSE 1)
        /\ result.rules[1].name = "R1"
        /\ Len(result.rules[1].when) = Len(written.conditions)
        /\ Len(result.rules[1].then) = Len(written.actions)
        /\ \A k \in 1..Len(written.actions) :
               /\ result.rules[1].then[k].operator = written.actions[k].body.operator
               /\ result.rules[1].then[k].assignableLeftOperand = written.actions[k].body.target
               /\ result.rules[1].then[k].valueToAssign = written.actions[k].body.value
        /\ written.followed =>
               /\ result.rules[2].name = "Testing Complete"
               /\ Len(result.rules[2].when) = 2
               /\ Len(result.rules[2].then) = 1
               /\ result.rules[2].then[1].operator = "add"
               /\ result.rules[2].then[1].assignableLeftOperand
                      = [object |-> "parent", field |-> "Tags"]
               /\ result.rules[2].then[1].valueToAssign = [value |-> "Ready for Deployment"]

\* parse returned one action per statement of the then clause of the first rule
oneActionPerStatement ==
    /\ pc = "returned"
    /\ Len(result.rules) >= 1
    /\ Len(result.rules[1].then) = Len(written.actions)

\* the option words of statement k are one or more, and contain the given word
hasWord(k, word) == \E w \in 1..Len(written.actions[k].options) : written.actions[k].options[w] = word

\* C18: for set, add and remove and an options segment of one or more words, the
\* alterOptions of the parsed action has bypassRules true exactly when bypassRules is
\* one of the words and suppressNotifications false exactly when notifications is one of
\* them, and the target of the action is the operand written after the whole segment.
OptionWordsSetTheOptions ==
    oneActionPerStatement =>
        \A k \in 1..Len(written.actions) :
            written.actions[k].options # <<>> =>
                LET action == result.rules[1].then[k]
                    isSet(option, value) ==
                        /\ option \in DOMAIN action.alterOptions
                        /\ action.alterOptions[option] = value
                IN  /\ isSet("bypassRules", TRUE) <=> hasWord(k, "bypassRules")
                    /\ isSet("suppressNotifications", FALSE) <=> hasWord(k, "notifications")
                    /\ action.assignableLeftOperand = written.actions[k].body.target

\* C19: an action written with the option word suppressNotifications parses to an
\* action whose alterOptions.suppressNotifications is true, neither unset nor false.
SuppressNotificationsWordSetsTrue ==
    oneActionPerStatement =>
        \A k \in 1..Len(written.actions) :
            hasWord(k, "suppressNotifications") =>
                /\ "suppressNotifications" \in DOMAIN result.rules[1].then[k].alterOptions
                /\ result.rules[1].then[k].alterOptions.suppressNotifications = TRUE

-----------------------------------------------------------------------------
(* Claims about the parsing of when clauses, under SpecConditions *)

\* the positions of the quote characters of a text
quotePositions(text) == {p \in 1..Len(text) : charAt(text, p) = "\""}

\* the positions at which the token " and " begins outside quotes
tokenPositions(text) ==
    {p \in 1..(Len(text) - 4) :
        /\ SubSeq(text, p, p + 4) = " and "
        /\ Cardinality({q \in quotePositions(text) : q < p}) % 2 = 0}

\* the tokens counted from left to right without overlap: two tokens overlap when the
\* last space of one is the first space of the next, and of a run of tokens that overlap
\* one after the other the first, the third and so on are counted
separatorPositions(text) ==
    LET tokens == tokenPositions(text)
        before(p) == {n \in 1..(p \div 4) : \A m \in 1..n : p - 4 * m \in tokens}
    IN  {p \in tokens : Cardinality(before(p)) % 2 = 0}

\* the k-th of a set of positions, in increasing order
nth(positions, k) == CHOOSE p \in positions : Cardinality({q \in positions : q < p}) = k - 1

\* the text between separator k - 1 and separator k
piece(text, k) ==
    LET separators == separatorPositions(text)
        from == IF k = 1 THEN 1 ELSE nth(separators, k - 1) + 5
        to == IF k > Cardinality(separators) THEN Len(text) ELSE nth(separators, k) - 1
    IN  SubSeq(text, from, to)

\* every quoted literal of the text lies in one of the chunks
literalsStayWhole(text, chunks) ==
    \A from \in quotePositions(text), to \in quotePositions(text) :
        (/\ from < to
         /\ Cardinality({q \in quotePositions(text) : q < from}) % 2 = 0
         /\ \A q \in quotePositions(text) : ~(from < q /\ q < to))
        => \E k \in 1..Len(chunks) : includes(chunks[k], SubSeq(text, from, to))

\* C21, as stated: splitting a when clause gives one chunk more than there are tokens
\* " and " outside quotes, every quoted literal lies wholly in one chunk, and joining the
\* chunks with " and " gives back the trimmed clause text.
SplitChunksJoinBackToTheClause ==
    isCall("splitByAndPreservingQuotes") =>
        /\ Len(result.returned) = 1 + Cardinality(tokenPositions(dslText))
        /\ literalsStayWhole(dslText, result.returned)
        /\ join(result.returned, " and ") = trim(dslText)

\* C21, amended: splitting a when clause gives one chunk more than there are tokens
\* " and " outside quotes counted from left to right without overlap (of two tokens that
\* share a space only the first is a separator), every quoted literal lies wholly in one
\* chunk, and each chunk is the text between two separators with the white space at its
\* ends removed, so that joining the chunks gives back the clause only up to that white
\* space.
SplitChunksAreTheTrimmedPieces ==
    isCall("splitByAndPreservingQuotes") =>
        /\ Len(result.returned) = 1 + Cardinality(separatorPositions(dslText))
        /\ literalsStayWhole(dslText, result.returned)
        /\ \A k \in 1..Len(result.returned) : result.returned[k] = trim(piece(dslText, k))

\* a clause of two chunks separated by two spaces and the token, the first chunk with the
\* literal "a and b": two chunks, the literal in the first
LiteralWithAndStaysInItsChunk ==
    /\ isCall("splitByAndPreservingQuotes")
    /\ includes(dslText, "\"a and b\"  and ")
    /\ Len(result.returned) = 2
    /\ endsWith(result.returned[1], "\"a and b\"")
    /\ join(result.returned, " and ") # dslText

\* a clause of three chunks of which the second begins with the word and: the token
\* occurs three times outside quotes, and there are three chunks
OverlappingTokenIsNoSeparator ==
    /\ isCall("splitByAndPreservingQuotes")
    /\ Cardinality(tokenPositions(dslText)) = 3
    /\ Len(result.returned) = 3
    /\ result.returned[2] = "and is \"Dev\""

\* C22: for every chunk <operand> <op> <operand> with one of the seven operators,
\* parseCondition returns the condition whose operator is <op> and whose operands are
\* the parses of the two operand texts, also when an operand text contains an operator
\* word.
ConditionKeepsItsOperator ==
    isCall("parseCondition") =>
        \A source \in ConditionSources :
            (dslText = conditionText(source) /\ source.operator \in Operators)
            => result.returned
                   = <<[leftOperand |-> parseOperand(source.left),
                        operator |-> source.operator,
                        rightOperand |-> parseOperand(source.right)]>>

\* the operands child(<cond>).<field> among the operand texts, in their parts
ChildOperands ==
    {[object |-> "child", condition |-> "State is \"Closed\"", field |-> "Title"],
     [object |-> "child", condition |-> "title matches \".*(Test|QA).*\"", field |-> "State"]}

\* C23: an operand child(<cond>).<field> parses to an object reference with the scope
\* child, the field <field> and one nested condition, the parse of <cond>, also when the
\* quoted literal of <cond> contains a closing parenthesis.
ChildOperandKeepsItsCondition ==
    isCall("parseOperand") =>
        \A operand \in ChildOperands :
            dslText = operand.object \o "(" \o operand.condition \o ")." \o operand.field
            => /\ parseCondition(operand.condition) # <<>>
               /\ result.returned
                      = [object |-> operand.object,
                         conditions |-> parseCondition(operand.condition),
                         field |-> operand.field]

\* one of the operator tokens occurs in the chunk
hasOperatorToken(chunk) == \E token \in Operators : includes(chunk, token)

\* the chunks of a clause: its pieces without the white space at their ends
chunksIn(clause) ==
    [k \in 1..(1 + Cardinality(separatorPositions(clause))) |-> trim(piece(clause, k))]

\* C25: a chunk without any operator token gives no condition and no error: parse
\* succeeds and the when list of the rule holds the conditions of the other chunks, in
\* order; a rule none of whose chunks has an operator token has an empty when list, and
\* evaluateRule is true for it in every item context.
ChunkWithoutOperatorIsDropped ==
    (isCall("parse") /\ dslText \notin OperandTexts) =>
        LET kept == SelectSeq(chunksIn(dslText), hasOperatorToken)
        IN  /\ result.returned.ok
            /\ Len(result.returned.rules) = 1
            /\ result.returned.rules[1].when = [k \in 1..Len(kept) |-> parseCondition(kept[k])[1]]
            /\ kept = <<>> =>
                   /\ result.returned.rules[1].when = <<>>
                   /\ \A context \in EngineContexts :
                          evaluateRule(result.returned.rules[1], context.triggeringWorkItem[1],
                                       context.parentWorkItem, context.childWorkItems)
                              = Return(TRUE)

\* the clause me.Title equals "Dev" and "a and b" contains me.Title: the rule is parsed
\* with the second condition only
OnlyTheSecondChunkIsKept ==
    /\ isCall("parse")
    /\ dslText = "me.Title equals \"Dev\" and \"a and b\" contains me.Title"
    /\ result.returned.ok
    /\ Len(result.returned.rules[1].when) = 1
    /\ result.returned.rules[1].when[1].operator = "contains"

-----------------------------------------------------------------------------
(* Claims about the then clause, under SpecStatements *)

\* C24: the action list of a rule is built from the lines of its then clause up to the
\* first blank line or the next rule header: a statement written after a blank line is
\* not among the actions of the rule before it, nor in their operands.
ThenClauseEndsAtBlankLine ==
    (pc = "returned" /\ blankLineInThenClause) =>
        result.rules[1].then
            = parseThenActions(<<"then " \o statementText(written.actions[1])>>, 0).actions

\* C29: an action keyword inside a quoted literal does not begin a new chunk: there are
\* as many parsed actions as statements, and every quoted literal is whole in the value
\* of its action.
KeywordInLiteralDoesNotSplit ==
    (pc = "returned" /\ ~blankLineInThenClause) =>
        /\ Len(result.rules[1].then) = Len(written.actions)
        /\ \A k \in 1..Len(written.actions) :
               "value" \in DOMAIN written.actions[k].body.value
               => result.rules[1].then[k].valueToAssign = written.actions[k].body.value

-----------------------------------------------------------------------------
(* Further claims about RuleEngine.executeRule, under SpecExecute *)

\* what executeRule returns for action k of the rule alone
alone(k) ==
    operationsOf([result.given EXCEPT !.then = <<result.given.then[k]>>],
                 ctx.triggeringWorkItem[1], ctx.parentWorkItem, ctx.childWorkItems)

\* the target set of the action is empty, or its value operand is unresolved
contributesNothing(action) ==
    \/ targetItems(action.assignableLeftOperand) = <<>>
    \/ unresolved(action.valueToAssign)

\* executeRule returned, every action of which the target set is empty or the value
\* unresolved gives no operation alone, and the operations returned are those the actions
\* give alone, in the order of the actions
emptyTargetsGiveNothing ==
    /\ result.returned.ok
    /\ \A k \in 1..Len(result.given.then) :
           /\ alone(k).ok
           /\ contributesNothing(result.given.then[k]) => alone(k) = Return(<<>>)
    /\ result.returned.value = flatten([k \in 1..Len(result.given.then) |-> alone(k).value])

\* the call was executeRule on a rule with an action of which the target set is empty or
\* the value unresolved, and of which the other actions return when they are run alone
hasUnresolvedReference ==
    /\ isCall("executeRule")
    /\ \E k \in 1..Len(result.given.then) : contributesNothing(result.given.then[k])
    /\ \A k \in 1..Len(result.given.then) :
           ~contributesNothing(result.given.then[k]) => alone(k).ok

\* C26: executeRule never raises on unresolved references: an action of which the target
\* set is empty (parent absent, no children, no child satisfying the nested conditions)
\* or the value operand is unresolved contributes no operation, and the other actions
\* of the rule contribute the operations they contribute alone.
ExecuteRuleNeverRaises ==
    hasUnresolvedReference => emptyTargetsGiveNothing

\* C26, the part that holds: the same, for the rules of which the resolution of every
\* value operand returns.
ExecuteRuleNeverRaisesWhenResolutionsReturn ==
    (/\ hasUnresolvedReference
     /\ \A k \in 1..Len(result.given.then) :
            resolutionReturns(result.given.then[k].valueToAssign))
    => emptyTargetsGiveNothing

\* the string written for a resolved value: the unique name of an assigned user, the
\* string form of any other value
writtenValue(value) == IF value.type = "object" THEN value.uniqueName ELSE String(value)

\* C27: the operations of a set action all carry the same value: the value operand
\* resolved with the triggering item as the implicit item, whatever the targets are, and
\* the unique name when that value is an assigned user.
SetValueIsResolvedFromTheTriggeringItem ==
    (/\ isCall("executeRule")
     /\ result.returned.ok
     /\ Len(result.given.then) = 1
     /\ result.given.then[1].operator = "set"
     /\ ("object" \in DOMAIN result.given.then[1].valueToAssign
         => result.given.then[1].valueToAssign.object \notin {"child", "children"}))
    => \A k \in 1..Len(result.returned.value) :
           result.returned.value[k].value
               = writtenValue(scopedValue(result.given.then[1].valueToAssign,
                                          ctx.triggeringWorkItem[1]))

\* set children.AssignedTo = AssignedTo with two children, one of them assigned to Ann:
\* both operations carry the unique name of Bob, to whom the triggering item is assigned
BothChildrenGetTheUserOfTheTriggeringItem ==
    /\ isCall("executeRule")
    /\ result.given.then
           = <<parseAction("set with notifications children.AssignedTo = AssignedTo")[1]>>
    /\ Len(ctx.childWorkItems) = 2
    /\ "System.AssignedTo" \in DOMAIN ctx.childWorkItems[2].fields
    /\ ctx.childWorkItems[2].fields["System.AssignedTo"].uniqueName = "ann@example.com"
    /\ result.returned.ok
    /\ Len(result.returned.value) = 2
    /\ result.returned.value[1].value = "bob@example.com"
    /\ result.returned.value[2].value = "bob@example.com"

\* C28: when a rule holds several add and remove actions on the tags of an item, the
\* item to which the returned operations are applied in order has every added literal
\* in its tags and none of the removed literals among its tag entries.
TagActionsAllTakeEffect ==
    (/\ isCall("executeRule")
     /\ result.returned.ok
     /\ \A k \in 1..Len(result.given.then) :
            /\ result.given.then[k].operator \in {"add", "remove"}
            /\ fieldOf(result.given.then[k].assignableLeftOperand) = <<"Tags">>)
    => \A k \in 1..Len(result.given.then) :
           LET action == result.given.then[k]
               targets == targetItems(action.assignableLeftOperand)
               after == applyTagOperations(targets, result.returned.value)
           IN  \A t \in 1..Len(after) :
                   IF action.operator = "add"
                   THEN /\ "System.Tags" \in DOMAIN after[t].fields
                        /\ includes(after[t].fields["System.Tags"].value,
                                    action.valueToAssign.value)
                   ELSE \A e \in 1..Len(tagEntries(after[t])) :
                            tagEntries(after[t])[e] # action.valueToAssign.value

-----------------------------------------------------------------------------
(* Termination of DSLParser.parse, under SpecLoops *)

\* the loops followed step by step end with what parse returns or throws
LoopsGiveWhatParseGives ==
    pc \in {"returned", "thrown"} => result = parse(dslText)

\* every iteration of the loop of parse and of the two multi-line loops advances the
\* line index, every iteration of the two scanners advances the character index, and the
\* line index never goes back
everyIterationAdvances ==
    /\ pc # "parse" => currentIndex' >= currentIndex
    /\ (pc = "parseLoop" /\ pc' \notin {"thrown", "returned"})
           => currentIndex' >= currentIndex + 1
    /\ (pc = "whenLoop" /\ pc' = "whenLoop") => currentIndex' >= currentIndex + 1
    /\ (pc = "thenLoop" /\ pc' = "thenLoop") => currentIndex' >= currentIndex + 1
    /\ (pc = "splitByAnd" /\ pc' = "splitByAnd") => result'.st.i >= result.st.i + 1
    /\ (pc = "splitActions" /\ pc' = "splitActions") => result'.st.i >= result.st.i + 1

\* C30: parse terminates on every text, returning the rules or throwing: every iteration
\* of its loop and of the when/then accumulation loops advances the line index by at
\* least one, and every iteration of the two character scanners advances the character
\* index by at least one.
ParseTerminates ==
    /\ [][everyIterationAdvances]_vars
    /\ <>(pc \in {"returned", "thrown"})

\* parse returned the rule of a text of four lines, of which one was skipped or
\* accumulated, after the scanners ran over its two conditions and its two actions
ParseReturnedAfterEveryLoopRan ==
    /\ pc = "returned"
    /\ Len(lines) = 4
    /\ Len(result.rules) = 1
    /\ Len(result.rules[1].when) = 2
    /\ Len(result.rules[1].then) = 2

====
